---- MODULE Spec2Model ----
(***************************************************************************)
(* QuickCart order and stock-reservation lifecycle.                        *)
(*                                                                         *)
(* The committed contents of the main database (orders, order_items,      *)
(* product_stocks) are the shared state.  Every repository call runs in   *)
(* its own AsyncSession (core/database.py get_main_session): it first     *)
(* reads rows into the session (a SELECT, READ COMMITTED), then changes   *)
(* the loaded objects, and session.flush() followed by the commit of the  *)
(* session context writes the changed columns back by primary key.  The   *)
(* read and the write-back are two separate steps, so calls of different  *)
(* sessions interleave between them.                                      *)
(***************************************************************************)
EXTENDS Integers, Sequences, FiniteSets, TLC

\* ---------------------------------------------------------------- bounds
MaxUsers    == 2
MaxProducts == 1
MaxOrders   == 2
MaxStocks   == 2
MaxSessions == 2
MaxQuantity == 2
MaxReplay   == 2
NUnits      == 3
\* the inventory on its own: one caller
InvUsers    == 1
InvProducts == 1
InvOrders   == 1
InvStocks   == 2
InvQuantity == 2
\* the order ledger on its own: one caller
LedUsers    == 1
LedOrders   == 1
LedStocks   == 2
LedQuantity == 1
\* the status calls on their own: one caller
StatOrders  == 2
StatStocks  == 1
StatItems   == 1
\* the webhook ingestor on its own
IngOrders   == 1
IngReplay   == 1
\* the expiry sweeper next to one buyer
SweepUsers    == 2
SweepOrders   == 2
SweepStocks   == 2
SweepQuantity == 1
TickStep      == 5
MaxClock      == 15
\* the bill and the gateway
MaxSubtotal   == 150
MaxRequests   == 2
\* the audit recorder on its own, and next to the ledger
AuditIds      == 1
AuditRows     == 3
CompIds       == 1
CompRows      == 1
\* the sold counts next to the ledger
SalesSold     == 2
\* the selection of expired payments
SelUsers      == 2
SelOrders     == 2
\* the calls of the rate limiter for one key
RateCallers   == 2
RateLimit     == 3
RateWindow    == 3
RateCalls     == 4
RateClock     == 6
\* the deletion of stock next to a checkout
DelSessions   == 2
DelOrders     == 1
DelStocks     == 2
\* the payment expiry queue
QueueOrders   == 2
QueueTicks    == 4
\* the handlers of one user session
SessionTicks  == 2
\* deposits and payments of one user in concurrent sessions
BalSessions   == 2
BalAmount     == 2
BalAdded      == 3
BalSets       == 1
\* a reader of the available count next to a writer
ReadOrders    == 1
ReadStocks    == 2
ReadQuantity  == 1

Users    == 1..MaxUsers
Products == 1..MaxProducts
Sessions == 1..MaxSessions

\* SQL NULL in product_stocks.order_id
NULL == 0

Statuses == {"pending", "paid", "expired", "cancelled"}

VARIABLES
    orders,          \* table orders: row id |-> [user_id, status, created_at]
    order_items,     \* table order_items: set of [order_id, stock_id]
    product_stocks,  \* table product_stocks: row id |-> [product_id, is_sold, order_id]
    sess,            \* the database sessions: the call each runs and what it has loaded
    sent,            \* fulfilment messages sent by the webhook, per order reference
    http,            \* status code of the last webhook response
    delivery,        \* the last webhook delivery: its fields and the response message
    now,             \* the clock (datetime.utcnow), in minutes
    sweep,           \* the expiry sweeper: its position and the orders it selected
    bill,            \* a checkout's bill: the subtotal and the payment fee computed for it
    gateway,         \* the Pakasir API and what PakasirClient last saw and sent
    audit_db,        \* the committed rows of the audit database, table |-> sequence of rows
    audit_sess,      \* the audit session: the rows it has added, the error it raised
    products_table,  \* table products: row id |-> [sold_count]
    users_table,     \* table users: row id |-> [account_balance]
    balance_log,     \* per user: the balance last set, the amounts added and deducted since
    store,           \* the key-value store (Redis or InMemoryStorage): key |-> entry
    clock,           \* the clock of the store (datetime.utcnow), in seconds
    flow,            \* the callers of the store: what they read and what they were told
    handler,         \* the bot handlers of a user: what the last one saved and answered
    schema           \* the tables of the two databases: created or dropped

dbVars == <<orders, order_items, product_stocks>>
hookVars == <<sent, http, delivery>>
sweepVars == <<now, sweep>>
payVars == <<bill, gateway>>
auditVars == <<audit_db, audit_sess>>
userVars == <<users_table, balance_log>>
kvVars == <<store, clock, flow, handler>>
sideVars == <<bill, gateway, audit_db, audit_sess, products_table,
              users_table, balance_log, store, clock, flow, handler, schema>>
vars == <<orders, order_items, product_stocks, sess, sent, http, delivery, now, sweep,
          bill, gateway, audit_db, audit_sess, products_table,
          users_table, balance_log, store, clock, flow, handler, schema>>

\* ------------------------------------------------------------- sessions
Idle ==
    [pc |-> "idle", client |-> "pool", op |-> "", user_id |-> 0, order_id |-> 0,
     product_id |-> 0, quantity |-> 0, new_status |-> "", status |-> "", stocks |-> <<>>,
     sold_count |-> 0, count |-> 0, selected |-> {}, amount |-> 0, balance |-> 0,
     only_unsold |-> TRUE, result |-> ""]

\* session p can start a call: it is idle and the tables of the main database
\* are there (for a statement on a dropped table see undefined_table)
Free(p) == sess[p].pc = "idle" /\ schema.main

\* The body of the call has run in session p: its rows are loaded, its objects
\* are changed and its return value (or the error it raises) is known.  What
\* is left is the exit of the session context, pc = "flush" when there are
\* changes to write and pc = "exit" when there are none.
Loaded(p, op) == sess[p].pc = "flush" /\ sess[p].op = op

Returns(s, op, result) == [s EXCEPT !.pc = "exit", !.op = op, !.result = result]


\* get_main_session on exit: commit (or rollback after a raise) and close.  A
\* pooled session is handed back for the next call; a one-shot client keeps
\* what its call returned.
Finish(s) == IF s.client = "once" THEN [s EXCEPT !.pc = "done"] ELSE Idle

OrderIds == 1..Len(orders)
StockIds == 1..Len(product_stocks)

\* rows of a table loaded into a session
Load(table, ids) == [i \in ids |-> table[i]]

\* session.flush(): the UPDATE sets only the columns whose value differs
\* from the value that was loaded
FlushColumn(current, loaded, assigned) ==
    IF assigned = loaded THEN current ELSE assigned

FlushStock(row, loaded, is_sold, order_id) ==
    [row EXCEPT !.is_sold = FlushColumn(row.is_sold, loaded.is_sold, is_sold),
                !.order_id = FlushColumn(row.order_id, loaded.order_id, order_id)]

\* ------------------------------------------------- OrderRepository reads
\* a select(Order) made unique(): the status of the order's row
get_by_id_unique(order_id) ==
    IF order_id \in OrderIds THEN orders[order_id].status ELSE "none"

\* select(Order) joins every row with the order's items (Order.items is
\* lazy="joined"), and scalar_one_or_none() of a result that was not made
\* unique() raises InvalidRequestError as soon as the result holds a row; with
\* no row it returns None
get_by_id(order_id) ==
    IF order_id \in OrderIds THEN "InvalidRequestError" ELSE "none"

\* "if order:" once get_by_id has returned
Found(order) == order \notin {"none", "InvalidRequestError"}

\* what a call that starts with get_by_id ends with: the error of get_by_id,
\* the value for a missing order, or the value for the order it found
Outcome(order, missing, found) ==
    IF order = "InvalidRequestError" THEN order
    ELSE IF order = "none" THEN missing ELSE found

PendingOrders(user_id) ==
    {o \in OrderIds : orders[o].user_id = user_id /\ orders[o].status = "pending"}

has_pending_order(user_id) == Cardinality(PendingOrders(user_id)) > 0

\* order.items (lazy="joined"): the stock ids of the order's items
ItemsOf(order_id) == {i.stock_id : i \in {j \in order_items : j.order_id = order_id}}

\* ----------------------------------------------- ProductRepository reads
get_available_stocks(product_id) ==
    {u \in StockIds : product_stocks[u].product_id = product_id
                      /\ ~product_stocks[u].is_sold}

\* a count of every unit of the product, sold or not
get_available_stock_count_all(product_id) ==
    Cardinality({u \in StockIds : product_stocks[u].product_id = product_id})

get_available_stock_count(product_id) == Cardinality(get_available_stocks(product_id))

\* the units of the order's items instead of the units reserved for it
get_stocks_for_order_items(order_id) == ItemsOf(order_id)

get_stocks_for_order(order_id) ==
    {u \in StockIds : product_stocks[u].order_id = order_id}

\* query.limit(limit) without ORDER BY: any min(limit, n) of the rows;
\* "if limit:" leaves the query unlimited for limit = 0
Limited(rows, limit) ==
    IF limit = 0 THEN {rows}
    ELSE {c \in SUBSET rows :
            Cardinality(c) = (IF Cardinality(rows) < limit THEN Cardinality(rows) ELSE limit)}

\* reserve_stock without its check of the number of rows
InsufficientStock_unchecked(stocks, quantity) == FALSE

InsufficientStock(stocks, quantity) == Cardinality(stocks) < quantity

\* stocks[:quantity] of the loaded list
Sliced(stocks, quantity) == IF quantity = 0 THEN {} ELSE stocks

\* a release that clears is_sold and forgets order_id
ReleasedStock_keepsOrder(row, loaded) == FlushStock(row, loaded, FALSE, loaded.order_id)

\* the columns a release assigns to a stock row
ReleasedStock(row, loaded) == FlushStock(row, loaded, FALSE, NULL)

\* the columns a reservation assigns to a stock row
ReservedStock(row, loaded, order_id) == FlushStock(row, loaded, TRUE, order_id)

\* write the session's loaded stock rows back, each changed by Change(row, loaded)
ReleaseLoaded(s) ==
    [u \in StockIds |->
        IF u \in DOMAIN s.stocks
        THEN ReleasedStock(product_stocks[u], s.stocks[u])
        ELSE product_stocks[u]]

Pending(s, op, result) == [s EXCEPT !.pc = "flush", !.op = op, !.result = result]

\* ------------------------------------------------------------- checkout
\* One checkout attempt: has_pending_order, then create if it returned False.
InFlightCreates == Cardinality({q \in DOMAIN sess : Loaded(q, "create")})

checkout_has_pending_order(p, user_id) ==
    /\ Free(p)
    /\ sess' = [sess EXCEPT ![p] =
          IF has_pending_order(user_id)
          THEN Returns([@ EXCEPT !.user_id = user_id], "create", "DuplicatePendingOrder")
          ELSE Pending([@ EXCEPT !.user_id = user_id, !.new_status = "pending"],
                       "create", "created")]
    /\ UNCHANGED <<dbVars, hookVars, sideVars, sweepVars>>

\* create(order_data) up to its flush: Order(**order_data) takes every column
\* from the caller, the status among them, and no check of the user's pending
\* orders is made here ("Caller must check has_pending_order() first")
create_get(p, user_id, status) ==
    /\ Free(p)
    /\ sess' = [sess EXCEPT ![p] =
          Pending([@ EXCEPT !.user_id = user_id, !.new_status = status], "create", "created")]
    /\ UNCHANGED <<dbVars, hookVars, sideVars, sweepVars>>

create(p) ==
    /\ Loaded(p, "create")
    /\ orders' = Append(orders, [user_id |-> sess[p].user_id, status |-> sess[p].new_status,
                                 created_at |-> now])
    /\ sess' = [sess EXCEPT ![p] = Finish(@)]
    /\ UNCHANGED <<order_items, product_stocks, hookVars, sideVars, sweepVars>>

\* OrderItem(order_id=order_id, **item_data): the row is inserted when the
\* order and the stock unit it names exist (the two foreign keys); the unit
\* need not be reserved, and not for this order
add_order_item(p, order_id, stock_id) ==
    /\ Free(p)
    /\ order_id \in OrderIds
    /\ stock_id \in StockIds /\ product_stocks[stock_id].product_id # NULL
    /\ order_items' = order_items \cup {[order_id |-> order_id, stock_id |-> stock_id]}
    /\ UNCHANGED <<orders, product_stocks, sess, hookVars, sideVars, sweepVars>>

\* ---------------------------------------------------------- order status
\* Each of the four calls starts with get_by_id; what follows runs only for an
\* order that get_by_id has returned.

\* "stock.is_sold = False; stock.order_id = None" for the unit of every item
ReleaseItems(order_id) ==
    [u \in StockIds |->
        IF u \in ItemsOf(order_id)
        THEN [product_stocks[u] EXCEPT !.is_sold = FALSE, !.order_id = NULL]
        ELSE product_stocks[u]]

update_status(p, order_id, new_status) ==
    LET order == get_by_id(order_id)
    IN  /\ Free(p)
        /\ orders' = IF Found(order)
                     THEN [orders EXCEPT ![order_id].status = new_status]
                     ELSE orders
        /\ sess' = [sess EXCEPT ![p] =
              Returns([@ EXCEPT !.order_id = order_id, !.new_status = new_status],
                      "update_status", Outcome(order, "None", "order"))]
        /\ UNCHANGED <<order_items, product_stocks, hookVars, sideVars, sweepVars>>

complete_order(p, order_id) ==
    LET order == get_by_id(order_id)
    IN  /\ Free(p)
        /\ orders' = IF Found(order)
                     THEN [orders EXCEPT ![order_id].status = "paid"]
                     ELSE orders
        /\ sess' = [sess EXCEPT ![p] =
              Returns([@ EXCEPT !.order_id = order_id],
                      "complete_order", Outcome(order, "None", "order"))]
        /\ UNCHANGED <<order_items, product_stocks, hookVars, sideVars, sweepVars>>

cancel_order(p, order_id) ==
    LET order == get_by_id(order_id)
    IN  /\ Free(p)
        /\ orders' = IF Found(order)
                     THEN [orders EXCEPT ![order_id].status = "cancelled"]
                     ELSE orders
        /\ product_stocks' = IF Found(order) THEN ReleaseItems(order_id) ELSE product_stocks
        /\ sess' = [sess EXCEPT ![p] =
              Returns([@ EXCEPT !.order_id = order_id],
                      "cancel_order", Outcome(order, "False", "True"))]
        /\ UNCHANGED <<order_items, hookVars, sideVars, sweepVars>>

\* "not order or order.status != 'pending'"
NotPending(status) == status = "none" \/ status # "pending"

expire_order(p, order_id) ==
    LET order == get_by_id(order_id)
        expires == Found(order) /\ ~NotPending(order)
    IN  /\ Free(p)
        /\ orders' = IF expires
                     THEN [orders EXCEPT ![order_id].status = "expired"]
                     ELSE orders
        /\ product_stocks' = IF expires THEN ReleaseItems(order_id) ELSE product_stocks
        /\ sess' = [sess EXCEPT ![p] =
              Returns([@ EXCEPT !.order_id = order_id],
                      "expire_order",
                      Outcome(order, "False", IF NotPending(order) THEN "False" ELSE "True"))]
        /\ UNCHANGED <<order_items, hookVars, sideVars, sweepVars>>

\* -------------------------------------------------------------- inventory
add_stock(p, product_id) ==
    /\ Free(p)
    /\ product_stocks' = Append(product_stocks,
            [product_id |-> product_id, is_sold |-> FALSE, order_id |-> NULL])
    /\ UNCHANGED <<orders, order_items, sess, hookVars, sideVars, sweepVars>>

\* add_bulk_stock(product_id, contents): one row for every content, in one flush
add_bulk_stock(p, product_id, contents) ==
    /\ Free(p)
    /\ product_stocks' = product_stocks \o
            [c \in 1..contents |-> [product_id |-> product_id, is_sold |-> FALSE, order_id |-> NULL]]
    /\ UNCHANGED <<orders, order_items, sess, hookVars, sideVars, sweepVars>>

\* reserve_stock up to its flush: read the available rows, check their number
\* and mark them
reserve_stock_get(p, product_id, quantity, order_id) ==
    /\ Free(p)
    /\ \E stocks \in Limited(get_available_stocks(product_id), quantity) :
          sess' = [sess EXCEPT ![p] =
             IF InsufficientStock(stocks, quantity)
             THEN Returns([@ EXCEPT !.order_id = order_id, !.product_id = product_id,
                                    !.quantity = quantity],
                          "reserve_stock", "InsufficientStock")
             ELSE Pending([@ EXCEPT !.order_id = order_id, !.product_id = product_id,
                                    !.quantity = quantity,
                                    !.stocks = Load(product_stocks, Sliced(stocks, quantity))],
                          "reserve_stock", "reserved")]
    /\ UNCHANGED <<dbVars, hookVars, sideVars, sweepVars>>

reserve_stock(p) ==
    /\ Loaded(p, "reserve_stock")
    /\ product_stocks' =
          [u \in StockIds |->
              IF u \in DOMAIN sess[p].stocks
              THEN ReservedStock(product_stocks[u], sess[p].stocks[u], sess[p].order_id)
              ELSE product_stocks[u]]
    /\ sess' = [sess EXCEPT ![p] = Finish(@)]
    /\ UNCHANGED <<orders, order_items, hookVars, sideVars, sweepVars>>

release_stock_get(p, order_id) ==
    /\ Free(p)
    /\ sess' = [sess EXCEPT ![p] =
          Pending([@ EXCEPT !.order_id = order_id,
                            !.stocks = Load(product_stocks, get_stocks_for_order(order_id))],
                  "release_stock", "released")]
    /\ UNCHANGED <<dbVars, hookVars, sideVars, sweepVars>>

release_stock(p) ==
    /\ Loaded(p, "release_stock")
    /\ product_stocks' = ReleaseLoaded(sess[p])
    /\ sess' = [sess EXCEPT ![p] = Finish(@)]
    /\ UNCHANGED <<orders, order_items, hookVars, sideVars, sweepVars>>

\* released_count of a release_stock call
released_count(s) == Cardinality(DOMAIN s.stocks)

\* a call that changed nothing leaves its session: commit of no changes, or
\* rollback when the call raised
session_exit(p) ==
    /\ sess[p].pc = "exit"
    /\ sess' = [sess EXCEPT ![p] = Finish(@)]
    /\ UNCHANGED <<dbVars, hookVars, sideVars, sweepVars>>

\* the sweeper between two sweeps
NoSweep == [pc |-> "idle", rows |-> {}, batch |-> {}, raised |-> FALSE]

\* no webhook has been delivered yet
NoDelivery ==
    [secret |-> FALSE, signature |-> "", json |-> TRUE, order_id |-> -1, status |-> "absent",
     amount |-> -1, message |-> "", pc |-> ""]

\* no bill has been computed yet
NoBill == [subtotal |-> 0, fee |-> -1, payment_fee |-> -1, total_bill |-> -1]

\* the gateway answers, and the client has not called it yet
NoGateway == [state |-> "ok", healthy |-> "", requests |-> 0, amount |-> 0, result |-> ""]

AuditTables == {"audit_logs", "payment_audit_logs", "admin_action_audit"}

\* no audit session is open
NoAudit == [pc |-> "closed", added |-> <<>>, raised |-> FALSE, result |-> -1]

\* an absent key of the store; expiry -1 is "no expiry"
NoEntry == [present |-> FALSE, value |-> 0, expiry |-> -1]

\* nobody has called the rate limiter yet
NoFlow(callers) ==
    [pc |-> [c \in callers |-> "idle"], use_redis |-> FALSE, allowed |-> 0,
     rejected |-> FALSE, history |-> <<>>, scheduled |-> <<>>]

\* no handler has run: nothing was handed to save_session
NoHandler == [wrote |-> FALSE, saved |-> [current_flow |-> "None"], result |-> ""]

\* the tables of both databases are there and nobody is creating or dropping
\* them
Created == [main |-> TRUE, audit |-> TRUE, pc |-> "idle", result |-> ""]

\* nothing was set, added or deducted yet
NoBalance == [base |-> 0, added |-> 0, deducted |-> 0, sets |-> 0]

\* the store and the clock at start
StoreInit ==
    /\ store = [k \in {"session", "rate", "queue"} |-> NoEntry]
    /\ clock = 0
    /\ handler = NoHandler

\* the users table, the store and its callers at start
UserInit ==
    /\ users_table = [u \in {1} |-> [account_balance |-> 0]]
    /\ balance_log = [u \in {1, 2} |-> NoBalance]
    /\ StoreInit
    /\ flow = NoFlow({1})

\* the payment side, the audit database and the products table at start
SideInit ==
    /\ schema = Created
    /\ bill = NoBill
    /\ gateway = NoGateway
    /\ audit_db = [t \in AuditTables |-> <<>>]
    /\ audit_sess = NoAudit
    /\ products_table = [pr \in Products |-> [sold_count |-> 0]]
    /\ UserInit

\* ------------------------------------------------------- the repositories
Init ==
    /\ orders = <<>>
    /\ order_items = {}
    /\ product_stocks = <<>>
    /\ sess = [p \in Sessions |-> Idle]
    /\ sent = [o \in 1..(MaxOrders + 1) |-> 0]
    /\ http = 0
    /\ delivery = NoDelivery
    /\ now = 0
    /\ sweep = NoSweep
    /\ SideInit

\* the ids a caller passes: an order that exists, or one that does not
OrderIdInputs == 1..(Len(orders) + 1)

\* the statuses a caller passes: the four of the ledger, and one it does not know
StatusInputs == Statuses \cup {"refunded"}

\* A checkout by one of the first `users` users, while fewer than `max_orders`
\* orders exist or are being created.
Checkout(users, max_orders) ==
    \E p \in DOMAIN sess :
        \/ /\ Len(orders) + InFlightCreates < max_orders
           /\ \E u \in 1..users : checkout_has_pending_order(p, u)
        \/ create(p)

\* An order created with one of `statuses` in its order_data, without the check
\* of has_pending_order.
CreateOrder(users, statuses, max_orders) ==
    \E p \in DOMAIN sess :
        /\ Len(orders) + InFlightCreates < max_orders
        /\ \E u \in 1..users, st \in statuses : create_get(p, u, st)

AddOrderItem == \E p \in DOMAIN sess, o \in OrderIds, u \in StockIds : add_order_item(p, o, u)

UpdateStatus ==
    \E p \in DOMAIN sess, o \in OrderIdInputs, st \in StatusInputs : update_status(p, o, st)

CompleteOrder == \E p \in DOMAIN sess, o \in OrderIdInputs : complete_order(p, o)

CancelOrder == \E p \in DOMAIN sess, o \in OrderIdInputs : cancel_order(p, o)

ExpireOrder == \E p \in DOMAIN sess, o \in OrderIdInputs : expire_order(p, o)

\* A restock of one of the first `products` products, one unit or several at
\* once, up to `max_stocks` units.
AddStock(products, max_stocks) ==
    \E p \in DOMAIN sess, pr \in 1..products :
        \/ /\ Len(product_stocks) < max_stocks
           /\ add_stock(p, pr)
        \/ \E contents \in 1..(max_stocks - Len(product_stocks)) :
              add_bulk_stock(p, pr, contents)

\* reserve_stock for an order that exists (product_stocks.order_id is a
\* foreign key), whatever its status
ReserveStock(products, max_quantity) ==
    \E p \in DOMAIN sess :
        \/ \E pr \in 1..products, q \in 0..max_quantity, o \in OrderIds :
              reserve_stock_get(p, pr, q, o)
        \/ reserve_stock(p)

\* release_stock for any order id
ReleaseStock == \E p \in DOMAIN sess : \/ \E o \in OrderIdInputs : release_stock_get(p, o)
                                       \/ release_stock(p)

SessionExit == \E p \in DOMAIN sess : session_exit(p)

\* Every repository call.
Next ==
    \/ Checkout(MaxUsers, MaxOrders)
    \/ CreateOrder(MaxUsers, Statuses, MaxOrders)
    \/ SessionExit
    \/ AddOrderItem
    \/ UpdateStatus
    \/ CompleteOrder
    \/ CancelOrder
    \/ ExpireOrder
    \/ AddStock(MaxProducts, MaxStocks)
    \/ ReserveStock(MaxProducts, MaxQuantity)
    \/ ReleaseStock

\* One caller: the calls run one after another.
InitSeq ==
    /\ orders = <<>>
    /\ order_items = {}
    /\ product_stocks = <<>>
    /\ sess = [p \in {1} |-> Idle]
    /\ sent = [o \in 1..(MaxOrders + 1) |-> 0]
    /\ http = 0
    /\ delivery = NoDelivery
    /\ now = 0
    /\ sweep = NoSweep
    /\ SideInit

SpecSeq == InitSeq /\ [][Next]_vars

\* The calls that read or write product_stocks, and the checkout that creates
\* the orders they reserve for.
NextInventory ==
    \/ Checkout(InvUsers, InvOrders)
    \/ SessionExit
    \/ AddStock(InvProducts, InvStocks)
    \/ ReserveStock(InvProducts, InvQuantity)
    \/ AddOrderItem
    \/ ReleaseStock
    \/ ExpireOrder
    \/ CancelOrder

SpecInventory == InitSeq /\ [][NextInventory]_vars

\* The calls that change the status of an order, next to the checkout and the
\* reservation that give the order its stock units (of product 1).
NextLedger ==
    \/ Checkout(LedUsers, LedOrders)
    \/ SessionExit
    \/ AddStock(1, LedStocks)
    \/ ReserveStock(1, LedQuantity)
    \/ AddOrderItem
    \/ CompleteOrder
    \/ CancelOrder
    \/ ExpireOrder

SpecLedger == InitSeq /\ [][NextLedger]_vars

\* The calls that read an order before they write, on orders of every status
\* (of user 1) and their items.
NextStatus ==
    \/ CreateOrder(1, Statuses, StatOrders)
    \/ (\E p \in DOMAIN sess : create(p))
    \/ SessionExit
    \/ AddStock(1, StatStocks)
    \/ ReserveStock(1, 1)
    \/ (Cardinality(order_items) < StatItems /\ AddOrderItem)
    \/ UpdateStatus
    \/ CompleteOrder
    \/ CancelOrder
    \/ ExpireOrder
    \/ ReleaseStock

SpecStatus == InitSeq /\ [][NextStatus]_vars

\* Concurrent callers: checkouts racing each other, the webhook's settlement
\* racing the sweeper's expiry.
NextRace ==
    \/ Checkout(MaxUsers, MaxOrders)
    \/ SessionExit
    \/ AddStock(MaxProducts, MaxStocks)
    \/ ReserveStock(MaxProducts, MaxQuantity)
    \/ AddOrderItem
    \/ CompleteOrder
    \/ ExpireOrder

Spec == Init /\ [][NextRace]_vars

\* ------------------------------------------------------ payment webhook
\* The invoice references a webhook can carry: the orders that exist and one
\* reference that resolves to no order.
UnknownRef == MaxOrders + 1
ABSENT == -1

validate_webhook_signature(secret, signature) ==
    IF ~secret THEN TRUE ELSE TRUE

\* "not x" of a payload field: the key is absent (None), or its value is 0 or
\* the empty string; order references and amounts are numbers here, with 0 for
\* the empty order_id
\* a check for the missing key only ("is None")
Falsy_absentOnly(x) == x = ABSENT

Falsy(x) == x = ABSENT \/ x = 0

FalsyStatus(status) == status = "absent" \/ status = ""

\* a handler that treats every status but expired as a settlement
Settles_notExpired(status) == status # "expired"

\* 'if status == "completed"'
Settles(status) == status = "completed"

\* A delivery.  json: the body is a JSON object; secret: a webhook secret is
\* configured; signature: the X-Pakasir-Signature header ("" when absent);
\* numeric: order_id is a JSON number, not a string; parses: order_id has the
\* form tg<digits>-...; metadata: "dict", or "null" for "metadata": null;
\* telegram_id: metadata.telegram_id; bot_app: the bot application is there.
Payload(json, secret, signature, order_id, numeric, parses, status, amount, metadata, telegram_id, bot_app) ==
    [json |-> json, secret |-> secret, signature |-> signature, order_id |-> order_id,
     numeric |-> numeric, parses |-> parses, status |-> status, amount |-> amount,
     metadata |-> metadata, telegram_id |-> telegram_id, bot_app |-> bot_app]

\* the message of "except Exception as e": str(e)
JSONDecodeError == "Expecting value: line 1 column 1 (char 0)"
NoneTypeGet == "'NoneType' object has no attribute 'get'"
IntSplit == "'int' object has no attribute 'split'"
TelegramError == "TelegramError"

\* The message of the JSON response of a delivery, up to the sending of the
\* fulfilment message.
Response(d) ==
    IF ~d.json
    THEN JSONDecodeError
    ELSE IF d.secret /\ d.signature # "" /\ ~validate_webhook_signature(d.secret, d.signature)
    THEN "Invalid signature"
    ELSE IF Falsy(d.order_id) \/ FalsyStatus(d.status) \/ Falsy(d.amount)
    THEN "Missing required fields"
    ELSE IF ~Settles(d.status)
    THEN "ok"
    ELSE IF d.metadata = "null"
    THEN NoneTypeGet
    ELSE IF ~Falsy(d.telegram_id)
    THEN "ok"
    ELSE IF d.numeric
    THEN IntSplit
    ELSE IF ~d.parses
    THEN "Invalid order_id format"
    ELSE "ok"

StatusCode(message) ==
    CASE message = "ok" -> 200
      [] message = "Invalid signature" -> 401
      [] message = "Missing required fields" -> 400
      [] message = "Invalid order_id format" -> 400
      [] OTHER -> 500

\* "if bot_app:" of a settlement that got as far as the fulfilment message
Sends(d) == Response(d) = "ok" /\ Settles(d.status) /\ d.bot_app

\* POST /webhooks/pakasir, up to its response or, for a settlement, up to
\* "await bot_app.bot.send_message"
pakasir_webhook(d) ==
    /\ delivery.pc # "sending"
    /\ delivery' = [secret |-> d.secret, signature |-> d.signature, json |-> d.json,
                    order_id |-> d.order_id, status |-> d.status, amount |-> d.amount,
                    message |-> IF Sends(d) THEN "" ELSE Response(d),
                    pc |-> IF Sends(d) THEN "sending" ELSE "done"]
    /\ http' = IF Sends(d) THEN 0 ELSE StatusCode(Response(d))
    /\ UNCHANGED <<dbVars, sess, sent, sweepVars, sideVars>>

\* send_message returns and the handler answers ok, or it raises and the
\* handler answers with the error
send_message(raises) ==
    /\ delivery.pc = "sending"
    /\ delivery' = [delivery EXCEPT !.pc = "done",
                                    !.message = IF raises THEN TelegramError ELSE "ok"]
    /\ http' = StatusCode(delivery'.message)
    /\ sent' = IF raises THEN sent ELSE [sent EXCEPT ![delivery.order_id] = @ + 1]
    /\ UNCHANGED <<dbVars, sess, sweepVars, sideVars>>

SendMessage == \E raises \in BOOLEAN : send_message(raises)

\* the number of fulfilment messages sent so far
RECURSIVE SentUpTo(_)
SentUpTo(n) == IF n = 0 THEN 0 ELSE sent[n] + SentUpTo(n - 1)

\* statuses the handler does not know; its comparisons are case-sensitive
UnknownStatuses == {"refunded", "COMPLETED"}

\* the signature headers of a delivery, with and without a configured secret
Signatures(secret) == IF secret THEN {"", "good", "bad"} ELSE {""}

\* A delivery of any payload, while fewer than `replay` messages have been
\* sent.  What the handler reads for a settlement only (metadata, the form of
\* order_id, the bot) varies for the deliveries that get that far.
Deliveries(replay) ==
    \/ \E secret \in BOOLEAN :
          pakasir_webhook(Payload(FALSE, secret, "", ABSENT, FALSE, FALSE, "absent", ABSENT,
                                  "dict", ABSENT, TRUE))
    \/ \E secret \in BOOLEAN :
       \E signature \in Signatures(secret),
          order_id \in {ABSENT, 0} \cup OrderIds \cup {UnknownRef},
          status \in {"absent", "", "completed", "expired", "pending"} \cup UnknownStatuses,
          amount \in {ABSENT, 0, 1} :
             LET settles == Settles(status) /\ ~Falsy(order_id) /\ ~Falsy(amount)
             IN  \E metadata \in (IF settles THEN {"dict", "null"} ELSE {"dict"}),
                    telegram_id \in (IF settles THEN {ABSENT, 1} ELSE {ABSENT}),
                    numeric \in (IF settles THEN BOOLEAN ELSE {FALSE}),
                    parses \in (IF settles THEN BOOLEAN ELSE {FALSE}),
                    bot_app \in (IF settles THEN BOOLEAN ELSE {TRUE}) :
                       LET d == Payload(TRUE, secret, signature, order_id, numeric, parses,
                                        status, amount, metadata, telegram_id, bot_app)
                       IN  /\ metadata = "null" => telegram_id = ABSENT
                           /\ numeric => ~parses
                           /\ Sends(d) => SentUpTo(Len(sent)) < replay
                           /\ pakasir_webhook(d)

\* The deliveries of the gateway for the orders of the shop: well-formed, no
\* secret configured.
Webhook ==
    \/ \E order_id \in OrderIds \cup {UnknownRef}, status \in {"completed", "expired", "pending"} :
          /\ sent[order_id] < MaxReplay
          /\ pakasir_webhook(Payload(TRUE, FALSE, "", order_id, FALSE, TRUE, status, 1,
                                     "dict", 1, TRUE))
    \/ SendMessage

\* The webhook ingestor next to the checkout and the expiry of orders, some of
\* them created as expired.
NextWebhook ==
    \/ Checkout(MaxUsers, MaxOrders)
    \/ CreateOrder(MaxUsers, {"expired"}, MaxOrders)
    \/ SessionExit
    \/ ExpireOrder
    \/ Webhook

SpecWebhook == InitSeq /\ [][NextWebhook]_vars

\* The webhook ingestor on its own: IngOrders pending orders, any delivery.
InitIngest ==
    /\ orders = [o \in 1..IngOrders |-> [user_id |-> o, status |-> "pending", created_at |-> 0]]
    /\ order_items = {}
    /\ product_stocks = <<>>
    /\ sess = [p \in {1} |-> Idle]
    /\ sent = [o \in 1..(MaxOrders + 1) |-> 0]
    /\ http = 0
    /\ delivery = NoDelivery
    /\ now = 0
    /\ sweep = NoSweep
    /\ SideInit

NextIngest ==
    \/ Deliveries(IngReplay)
    \/ SendMessage

SpecIngest == InitIngest /\ [][NextIngest]_vars

\* ------------------------------------------- N + 1 buyers, N units in stock
\* A product with NUnits unsold units, NUnits + 1 buyers with a pending order
\* each, and every buyer's checkout reserving one unit in a session of its own.
InitReserveN ==
    /\ orders = [o \in 1..(NUnits + 1) |-> [user_id |-> o, status |-> "pending", created_at |-> 0]]
    /\ order_items = {}
    /\ product_stocks = [u \in 1..NUnits |->
                            [product_id |-> 1, is_sold |-> FALSE, order_id |-> NULL]]
    /\ sess = [p \in 1..(NUnits + 1) |-> [Idle EXCEPT !.client = "once"]]
    /\ sent = [o \in 1..(MaxOrders + 1) |-> 0]
    /\ http = 0
    /\ delivery = NoDelivery
    /\ now = 0
    /\ sweep = NoSweep
    /\ SideInit

NextReserveN ==
    \E p \in DOMAIN sess :
        \/ reserve_stock_get(p, 1, 1, p)
        \/ reserve_stock(p)
        \/ session_exit(p)

SpecReserveN == InitReserveN /\ [][NextReserveN]_vars

\* -------------------------------------------------------- expiry sweeper
\* timedelta(minutes=10) of get_expired_payments
PaymentWindow == 10

\* limit: int = 100 of get_expired_payments
ExpiredLimit == 100

\* the rows the SELECT of get_expired_payments matches, before its limit
get_expired_payments ==
    {o \in OrderIds : /\ orders[o].status = "pending"
                      /\ orders[o].created_at <= now - PaymentWindow}

\* result.scalars().all() of a select(Order) that was not made unique(): the
\* empty list when no row matches, InvalidRequestError as soon as there is one
scalars_all(rows) == IF rows = {} THEN "orders" ELSE "InvalidRequestError"

\* the clock advances
Tick ==
    /\ now + TickStep <= MaxClock
    /\ now' = now + TickStep
    /\ UNCHANGED <<dbVars, sess, hookVars, sideVars, sweep>>

\* get_main_session after a raise: the table as it was, not as the session wrote it
RolledBack(table, written) == table

\* the two sessions next to each other: the buyer's checkout, the sweeper
Buyer == 1
Sweeper == 2

\* A checkout in one session: has_pending_order, create, reserve_stock and
\* add_order_item for every reserved unit, committed together at the exit of
\* the session or rolled back together when a step raises.
checkout_get(p, user_id, product_id, quantity) ==
    /\ Free(p)
    /\ \E stocks \in Limited(get_available_stocks(product_id), quantity) :
          sess' = [sess EXCEPT ![p] =
             IF has_pending_order(user_id)
             THEN Returns([@ EXCEPT !.user_id = user_id], "checkout", "DuplicatePendingOrder")
             ELSE IF InsufficientStock(stocks, quantity)
             THEN Returns([@ EXCEPT !.user_id = user_id, !.product_id = product_id,
                                    !.quantity = quantity],
                          "checkout", "InsufficientStock")
             ELSE Pending([@ EXCEPT !.user_id = user_id, !.product_id = product_id,
                                    !.quantity = quantity,
                                    !.stocks = Load(product_stocks, Sliced(stocks, quantity))],
                          "checkout", "created")]
    /\ UNCHANGED <<dbVars, hookVars, sideVars, sweepVars>>

checkout(p) ==
    /\ Loaded(p, "checkout")
    /\ orders' = Append(orders, [user_id |-> sess[p].user_id, status |-> "pending",
                                 created_at |-> now])
    /\ product_stocks' =
          [u \in StockIds |->
              IF u \in DOMAIN sess[p].stocks
              THEN ReservedStock(product_stocks[u], sess[p].stocks[u], Len(orders) + 1)
              ELSE product_stocks[u]]
    /\ order_items' = order_items \cup
          {[order_id |-> Len(orders) + 1, stock_id |-> u] : u \in DOMAIN sess[p].stocks}
    /\ sess' = [sess EXCEPT ![p] = Finish(@)]
    /\ UNCHANGED <<hookVars, sideVars, sweepVars>>

\* sweep(): select the orders to expire.  The selection returns its rows, or
\* raises and ends the sweep with nothing selected; a selection that returns
\* is empty, so a sweep has no order to call expire_order for.
sweep_select ==
    /\ sweep.pc = "idle"
    /\ Free(Sweeper)
    /\ \E rows \in Limited(get_expired_payments, ExpiredLimit) :
          sweep' = [pc |-> "run", rows |-> rows,
                    batch |-> IF scalars_all(rows) = "orders" THEN rows ELSE {},
                    raised |-> scalars_all(rows) # "orders"]
    /\ UNCHANGED <<dbVars, sess, hookVars, sideVars, now>>

\* the sweep is over, the sweeper waits for the next interval
sweep_done ==
    /\ sweep.pc = "run"
    /\ Free(Sweeper)
    /\ sweep' = [sweep EXCEPT !.pc = "idle"]
    /\ UNCHANGED <<dbVars, sess, hookVars, sideVars, now>>

InitSweep ==
    /\ orders = <<>>
    /\ order_items = {}
    /\ product_stocks = <<>>
    /\ sess = [p \in {Buyer, Sweeper} |-> Idle]
    /\ sent = [o \in 1..(MaxOrders + 1) |-> 0]
    /\ http = 0
    /\ delivery = NoDelivery
    /\ now = 0
    /\ sweep = NoSweep
    /\ SideInit

BuyerCheckout ==
    \/ /\ Len(orders) < SweepOrders
       /\ \E u \in 1..SweepUsers, q \in 1..SweepQuantity :
             checkout_get(Buyer, u, 1, q)
    \/ checkout(Buyer)
    \/ session_exit(Buyer)

SweeperStep ==
    \/ sweep_select
    \/ sweep_done

NextSweep ==
    \/ BuyerCheckout
    \/ AddStock(1, SweepStocks)
    \/ Tick
    \/ SweeperStep

\* The sweeper runs at every interval.
SpecSweep ==
    /\ InitSweep
    /\ [][NextSweep]_vars
    /\ WF_vars(SweeperStep)

\* ------------------------------------------------------------ payment fee
\* payment_fee_percentage = 0.007, in thousandths
FeePerMille == 7

payment_fee_fixed == 310

\* the subtotal of test_payment_fee_calculation
TestSubtotal == 100000

Subtotals == 0..MaxSubtotal \cup {TestSubtotal}

\* int(subtotal * 0.007) + 310.  int() drops the fraction of the float
\* product; for every subtotal drawn here that product and subtotal * 7 / 1000
\* have the same integer part.
calculate_payment_fee(subtotal) ==
    (subtotal * FeePerMille) \div 1000 + payment_fee_fixed

\* the checkout computes the fee of its subtotal
apply_payment_fee ==
    /\ bill.fee = -1
    /\ bill' = [bill EXCEPT !.fee = calculate_payment_fee(bill.subtotal)]
    /\ UNCHANGED <<dbVars, sess, hookVars, sweepVars, gateway, auditVars, products_table, userVars, kvVars, schema>>

\* Decimal amounts are kept in thousandths of a rupiah: Decimal("0.007") is 7
Milli == 1000

\* subtotal * Decimal(str(0.007)) + Decimal(str(310)), an exact Decimal
checkout_payment_fee(subtotal) ==
    subtotal * FeePerMille + payment_fee_fixed * Milli

\* handle_checkout_callback computes the totals of its subtotal
checkout_totals ==
    /\ bill.payment_fee = -1
    /\ bill' = [bill EXCEPT
          !.payment_fee = checkout_payment_fee(bill.subtotal),
          !.total_bill = bill.subtotal * Milli + checkout_payment_fee(bill.subtotal)]
    /\ UNCHANGED <<dbVars, sess, hookVars, sweepVars, gateway, auditVars, products_table, userVars, kvVars, schema>>

\* -------------------------------------------------------- Pakasir client
\* what the API does with a request: it answers 200, it answers with an
\* error status, or the connection fails
GatewayStates == {"ok", "error", "unreachable"}

\* the API goes down or comes back
gateway_turns(state) ==
    /\ state # gateway.state
    /\ gateway' = [gateway EXCEPT !.state = state]
    /\ UNCHANGED <<dbVars, sess, hookVars, sweepVars, bill, auditVars, products_table, userVars, kvVars, schema>>

\* GET base_url: True for status 200, False for another status or an exception
check_health ==
    /\ gateway' = [gateway EXCEPT
          !.healthy = IF gateway.state = "ok" THEN "True" ELSE "False"]
    /\ gateway'.healthy # gateway.healthy
    /\ UNCHANGED <<dbVars, sess, hookVars, sweepVars, bill, auditVars, products_table, userVars, kvVars, schema>>

\* POST /api/transactioncreate/qris with the payload; the response's data, or
\* None after an error status (raise_for_status) or a failed connection
create_qris_payment(amount) ==
    /\ gateway.requests < MaxRequests
    /\ gateway' = [gateway EXCEPT
          !.requests = @ + 1,
          !.amount = amount,
          !.result = IF gateway.state = "ok" THEN "data" ELSE "None"]
    /\ UNCHANGED <<dbVars, sess, hookVars, sweepVars, bill, auditVars, products_table, userVars, kvVars, schema>>

\* A checkout's payment: the fee of any subtotal, then the payment of subtotal
\* plus fee at the gateway, with health checks at any time.
InitPayment ==
    /\ orders = <<>>
    /\ order_items = {}
    /\ product_stocks = <<>>
    /\ sess = [p \in {1} |-> Idle]
    /\ sent = [o \in 1..(MaxOrders + 1) |-> 0]
    /\ http = 0
    /\ delivery = NoDelivery
    /\ now = 0
    /\ sweep = NoSweep
    /\ schema = Created
    /\ bill \in {[NoBill EXCEPT !.subtotal = s] : s \in Subtotals}
    /\ gateway = NoGateway
    /\ audit_db = [t \in AuditTables |-> <<>>]
    /\ audit_sess = NoAudit
    /\ products_table = [pr \in Products |-> [sold_count |-> 0]]
    /\ UserInit

NextPayment ==
    \/ apply_payment_fee
    \/ checkout_totals
    \/ \E state \in GatewayStates : gateway_turns(state)
    \/ check_health
    \/ /\ bill.fee # -1
       /\ create_qris_payment(bill.subtotal + bill.fee)

SpecPayment == InitPayment /\ [][NextPayment]_vars

\* -------------------------------------------------------- audit recorder
\* The rows of the three audit tables, reduced to what identifies the event:
\* the entity and what happened to it.
AuditLog(entity_type, entity_id, action) ==
    [table |-> "audit_logs", entity_type |-> entity_type, entity_id |-> entity_id,
     action |-> action]

\* class PaymentAuditLog names a column attribute "metadata", a name the
\* declarative API reserves: the class cannot be defined, and there is no row
\* of it to build
PaymentAuditLog(order_id, status) == "InvalidRequestError"

AdminActionAudit(command, target_id) ==
    [table |-> "admin_action_audit", entity_type |-> "admin", entity_id |-> target_id,
     action |-> command]

\* the rows of table t among the rows a session has added
AddedTo(t, added) == SelectSeq(added, LAMBDA row : row.table = t)

\* a commit that replaces the tables by the rows of the session
Committed_replaced(db, added) == [t \in AuditTables |-> AddedTo(t, added)]

\* session.commit(): the INSERTs of the session, after the rows of each table
Committed(db, added) == [t \in AuditTables |-> db[t] \o AddedTo(t, added)]

\* the rows of the audit database and of the open session
AuditRowCount ==
    Len(audit_db["audit_logs"]) + Len(audit_db["payment_audit_logs"])
    + Len(audit_db["admin_action_audit"]) + Len(audit_sess.added)

\* session.add(row) and session.flush(), in the audit session (opened by
\* get_audit_session when it is not open yet); the flush raises when the
\* audit tables were dropped
AuditAdd(row) ==
    /\ audit_sess' = IF schema.audit
                     THEN [audit_sess EXCEPT !.pc = "open", !.added = Append(@, row),
                                             !.raised = FALSE]
                     ELSE [NoAudit EXCEPT !.raised = TRUE]
    /\ UNCHANGED <<dbVars, sess, hookVars, sweepVars, payVars, audit_db, products_table, userVars, kvVars, schema>>

log_action(entity_type, entity_id, action) ==
    AuditAdd(AuditLog(entity_type, entity_id, action))

\* the call raises before it adds a row: get_audit_session rolls back what
\* the session has added, raises the error again and closes
log_payment_transaction(order_id, status) ==
    /\ PaymentAuditLog(order_id, status) = "InvalidRequestError"
    /\ audit_sess' = [NoAudit EXCEPT !.raised = TRUE]
    /\ audit_db' = RolledBack(audit_db, Committed(audit_db, audit_sess.added))
    /\ UNCHANGED <<dbVars, sess, hookVars, sweepVars, payVars, products_table, userVars, kvVars, schema>>

log_admin_action(command, target_id) ==
    AuditAdd(AdminActionAudit(command, target_id))

\* the number of rows get_entity_history returns (before its limit): the
\* committed rows and the rows the session itself has flushed
get_entity_history(entity_type, entity_id) ==
    /\ schema.audit
    /\ audit_sess' = [audit_sess EXCEPT !.pc = "open", !.raised = FALSE,
          !.result = Len(SelectSeq(audit_db["audit_logs"] \o AddedTo("audit_logs", audit_sess.added),
                                   LAMBDA row : /\ row.entity_type = entity_type
                                                /\ row.entity_id = entity_id))]
    /\ audit_sess' # audit_sess
    /\ UNCHANGED <<dbVars, sess, hookVars, sweepVars, payVars, audit_db, products_table, userVars, kvVars, schema>>

\* get_audit_session on exit: commit and close
audit_commit ==
    /\ audit_sess.pc = "open"
    /\ audit_db' = Committed(audit_db, audit_sess.added)
    /\ audit_sess' = NoAudit
    /\ UNCHANGED <<dbVars, sess, hookVars, sweepVars, payVars, products_table, userVars, kvVars, schema>>

\* get_audit_session when the flush or the commit raises: rollback, the error
\* is raised again, close
audit_fails ==
    /\ audit_sess.pc = "open"
    /\ audit_sess.added # <<>>
    /\ audit_db' = RolledBack(audit_db, Committed(audit_db, audit_sess.added))
    /\ audit_sess' = [NoAudit EXCEPT !.raised = TRUE]
    /\ UNCHANGED <<dbVars, sess, hookVars, sweepVars, payVars, products_table, userVars, kvVars, schema>>

OrderEvents == {"paid", "expired", "cancelled"}
StockEvents == {"reserve", "release"}

\* The calls of AuditRepository about the entities `ids`, while the audit
\* database and the session hold fewer than `rows` rows.
AuditWrites(ids, rows) ==
    /\ AuditRowCount < rows
    /\ \/ \E id \in ids, action \in OrderEvents : log_action("order", id, action)
       \/ \E id \in ids, action \in StockEvents : log_action("stock", id, action)
       \/ \E id \in ids, status \in {"paid", "expired"} : log_payment_transaction(id, status)
       \/ \E id \in ids : log_admin_action("/add", id)

AuditReads(ids) ==
    \E entity_type \in {"order", "stock"}, id \in ids : get_entity_history(entity_type, id)

\* The audit recorder on its own.
NextAudit ==
    \/ AuditWrites(1..AuditIds, AuditRows)
    \/ AuditReads(1..AuditIds)
    \/ audit_commit
    \/ audit_fails

SpecAudit == InitSeq /\ [][NextAudit]_vars

\* The order ledger and the webhook next to the audit recorder.
NextCompliance ==
    \/ NextLedger
    \/ Webhook
    \/ AuditWrites(1..CompIds, CompRows)
    \/ audit_commit
    \/ audit_fails

SpecCompliance == InitSeq /\ [][NextCompliance]_vars

\* ------------------------------------------------------------ sold count
\* increment_sold_count up to its flush: the product row is loaded and
\* "sold_count += quantity" is computed on the loaded value
increment_sold_count_get(p, product_id, quantity) ==
    /\ Free(p)
    /\ sess' = [sess EXCEPT ![p] =
          IF product_id \notin DOMAIN products_table
          THEN Returns([@ EXCEPT !.product_id = product_id, !.quantity = quantity],
                       "increment_sold_count", "False")
          ELSE Pending([@ EXCEPT !.product_id = product_id, !.quantity = quantity,
                                 !.sold_count = products_table[product_id].sold_count],
                       "increment_sold_count", "True")]
    /\ UNCHANGED <<dbVars, hookVars, sideVars, sweepVars>>

increment_sold_count(p) ==
    /\ Loaded(p, "increment_sold_count")
    /\ products_table' = [products_table EXCEPT ![sess[p].product_id].sold_count =
          FlushColumn(@, sess[p].sold_count, sess[p].sold_count + sess[p].quantity)]
    /\ sess' = [sess EXCEPT ![p] = Finish(@)]
    /\ UNCHANGED <<dbVars, hookVars, sweepVars, payVars, auditVars, userVars, kvVars, schema>>

\* the units of product_id that are reserved for order_id
UnitsOf(order_id, product_id) ==
    {u \in get_stocks_for_order(order_id) : product_stocks[u].product_id = product_id}

IncrementSoldCount(products, max_quantity, max_sold) ==
    \E p \in DOMAIN sess :
        \/ \E pr \in 1..(products + 1), q \in 1..max_quantity :
              /\ \A r \in DOMAIN products_table : products_table[r].sold_count + q <= max_sold
              /\ increment_sold_count_get(p, pr, q)
        \/ increment_sold_count(p)

\* ProductRepository.create(product_data): Product(**product_data) takes every
\* column from the caller, sold_count among them
create_product(p, sold_count) ==
    /\ Free(p)
    /\ products_table' =
          [pr \in 1..(Cardinality(DOMAIN products_table) + 1) |->
              IF pr \in DOMAIN products_table THEN products_table[pr]
              ELSE [sold_count |-> sold_count]]
    /\ UNCHANGED <<dbVars, sess, hookVars, sweepVars, payVars, auditVars, userVars, kvVars, schema>>

\* ProductRepository.update(product_id, updates) up to its flush: the product
\* row is loaded and every key of updates is set on it
update_product_get(p, product_id, sold_count) ==
    /\ Free(p)
    /\ sess' = [sess EXCEPT ![p] =
          IF product_id \notin DOMAIN products_table
          THEN Returns([@ EXCEPT !.product_id = product_id], "update", "None")
          ELSE Pending([@ EXCEPT !.product_id = product_id, !.quantity = sold_count,
                                 !.sold_count = products_table[product_id].sold_count],
                       "update", "product")]
    /\ UNCHANGED <<dbVars, hookVars, sideVars, sweepVars>>

update_product(p) ==
    /\ Loaded(p, "update")
    /\ products_table' = [products_table EXCEPT ![sess[p].product_id].sold_count =
          FlushColumn(@, sess[p].sold_count, sess[p].quantity)]
    /\ sess' = [sess EXCEPT ![p] = Finish(@)]
    /\ UNCHANGED <<dbVars, hookVars, sweepVars, payVars, auditVars, userVars, kvVars, schema>>

\* The products an admin adds and edits, with sold counts up to max_sold.
EditProducts(products, max_sold) ==
    \E p \in DOMAIN sess :
        \/ /\ Cardinality(DOMAIN products_table) < products
           /\ \E sold_count \in 0..max_sold : create_product(p, sold_count)
        \/ \E pr \in 1..products, sold_count \in 0..max_sold :
              update_product_get(p, pr, sold_count)
        \/ update_product(p)

\* The order ledger, with orders that are created as paid, next to the sold
\* counts of the products.
NextSales ==
    \/ NextLedger
    \/ CreateOrder(LedUsers, {"paid"}, LedOrders)
    \/ IncrementSoldCount(InvProducts, LedQuantity, SalesSold)
    \/ EditProducts(InvProducts + 1, SalesSold)

SpecSales == InitSeq /\ [][NextSales]_vars

\* ------------------------------------------------------- available count
\* SELECT count(id) ... WHERE is_sold == False, in a session of its own
count_available(p, product_id) ==
    /\ Free(p)
    /\ sess' = [sess EXCEPT ![p] =
          Returns([@ EXCEPT !.product_id = product_id, !.count = get_available_stock_count(product_id)],
                  "get_available_stock_count", "count")]
    /\ UNCHANGED <<dbVars, hookVars, sideVars, sweepVars>>

\* the two sessions next to each other: the calls that write, the reader
Writer == 1
Reader == 2

\* A reader of the available count of product 1 next to the calls of one user
\* that reserve and release its units.
InitReader ==
    /\ orders = <<>>
    /\ order_items = {}
    /\ product_stocks = <<>>
    /\ sess = [p \in {Writer, Reader} |-> Idle]
    /\ sent = [o \in 1..(MaxOrders + 1) |-> 0]
    /\ http = 0
    /\ delivery = NoDelivery
    /\ now = 0
    /\ sweep = NoSweep
    /\ SideInit

WriterCall ==
    \/ /\ Len(orders) + InFlightCreates < ReadOrders
       /\ checkout_has_pending_order(Writer, 1)
    \/ create(Writer)
    \/ \E q \in 0..ReadQuantity, o \in OrderIds : reserve_stock_get(Writer, 1, q, o)
    \/ reserve_stock(Writer)
    \/ \E o \in OrderIds, u \in StockIds : add_order_item(Writer, o, u)
    \/ \E o \in OrderIdInputs : release_stock_get(Writer, o)
    \/ release_stock(Writer)
    \/ \E o \in OrderIdInputs : expire_order(Writer, o)
    \/ \E o \in OrderIdInputs : cancel_order(Writer, o)
    \/ session_exit(Writer)

NextReader ==
    \/ WriterCall
    \/ /\ Len(product_stocks) < ReadStocks
       /\ add_stock(Writer, 1)
    \/ \E contents \in 1..(ReadStocks - Len(product_stocks)) : add_bulk_stock(Writer, 1, contents)
    \/ count_available(Reader, 1)
    \/ session_exit(Reader)

SpecReader == InitReader /\ [][NextReader]_vars

\* ------------------------------------------------------ expired payments
\* payment_expiry_minutes of the settings
payment_expiry_minutes == 10
session_ttl_seconds == 86400

\* get_expired_payments(limit = 100) in a session of its own: the rows it returns
expired_payments(p) ==
    /\ Free(p)
    /\ \E rows \in Limited(get_expired_payments, ExpiredLimit) :
          sess' = [sess EXCEPT ![p] =
             Returns([@ EXCEPT !.selected = IF scalars_all(rows) = "orders" THEN rows ELSE {}],
                     "get_expired_payments", scalars_all(rows))]
    /\ UNCHANGED <<dbVars, hookVars, sideVars, sweepVars>>

\* The selection of expired payments next to the calls that create orders and
\* change their status, while the clock advances.
NextSelect ==
    \/ Checkout(SelUsers, SelOrders)
    \/ SessionExit
    \/ CompleteOrder
    \/ CancelOrder
    \/ ExpireOrder
    \/ Tick
    \/ \E p \in DOMAIN sess : expired_payments(p)

SpecSelect == InitSeq /\ [][NextSelect]_vars

\* ---------------------------------------------------------- user balance
\* add_balance up to its flush: the user row is loaded and the new balance is
\* computed from the loaded one
add_balance_get(p, user_id, amount) ==
    /\ Free(p)
    /\ sess' = [sess EXCEPT ![p] =
          IF user_id \notin DOMAIN users_table
          THEN Returns([@ EXCEPT !.user_id = user_id, !.amount = amount], "add_balance", "None")
          ELSE Pending([@ EXCEPT !.user_id = user_id, !.amount = amount,
                                 !.balance = users_table[user_id].account_balance],
                       "add_balance", "user")]
    /\ UNCHANGED <<dbVars, hookVars, sideVars, sweepVars>>

\* user_repo.update and session.commit(): UPDATE users SET account_balance
add_balance(p) ==
    /\ Loaded(p, "add_balance")
    /\ users_table' = [users_table EXCEPT ![sess[p].user_id].account_balance =
          FlushColumn(@, sess[p].balance, sess[p].balance + sess[p].amount)]
    /\ balance_log' = [balance_log EXCEPT ![sess[p].user_id].added = @ + sess[p].amount]
    /\ sess' = [sess EXCEPT ![p] = Finish(@)]
    /\ UNCHANGED <<dbVars, hookVars, sweepVars, payVars, auditVars, products_table, kvVars, schema>>

\* "float(user.account_balance) < amount"
Insufficient(balance, amount) == balance < amount

deduct_balance_get(p, user_id, amount) ==
    /\ Free(p)
    /\ sess' = [sess EXCEPT ![p] =
          IF user_id \notin DOMAIN users_table
          THEN Returns([@ EXCEPT !.user_id = user_id, !.amount = amount],
                       "deduct_balance", "None")
          ELSE IF Insufficient(users_table[user_id].account_balance, amount)
          THEN Returns([@ EXCEPT !.user_id = user_id, !.amount = amount,
                                 !.balance = users_table[user_id].account_balance],
                       "deduct_balance", "None")
          ELSE Pending([@ EXCEPT !.user_id = user_id, !.amount = amount,
                                 !.balance = users_table[user_id].account_balance],
                       "deduct_balance", "user")]
    /\ UNCHANGED <<dbVars, hookVars, sideVars, sweepVars>>

deduct_balance(p) ==
    /\ Loaded(p, "deduct_balance")
    /\ users_table' = [users_table EXCEPT ![sess[p].user_id].account_balance =
          FlushColumn(@, sess[p].balance, sess[p].balance - sess[p].amount)]
    /\ balance_log' = [balance_log EXCEPT ![sess[p].user_id].deducted = @ + sess[p].amount]
    /\ sess' = [sess EXCEPT ![p] = Finish(@)]
    /\ UNCHANGED <<dbVars, hookVars, sweepVars, payVars, auditVars, products_table, kvVars, schema>>

\* set_balance up to its flush: user_repo.update loads the user row and sets
\* account_balance on it
set_balance_get(p, user_id, amount) ==
    /\ Free(p)
    /\ sess' = [sess EXCEPT ![p] =
          IF user_id \notin DOMAIN users_table
          THEN Returns([@ EXCEPT !.user_id = user_id, !.amount = amount], "set_balance", "None")
          ELSE Pending([@ EXCEPT !.user_id = user_id, !.amount = amount,
                                 !.balance = users_table[user_id].account_balance],
                       "set_balance", "user")]
    /\ UNCHANGED <<dbVars, hookVars, sideVars, sweepVars>>

set_balance(p) ==
    /\ Loaded(p, "set_balance")
    /\ users_table' = [users_table EXCEPT ![sess[p].user_id].account_balance =
          FlushColumn(@, sess[p].balance, sess[p].amount)]
    /\ balance_log' = [balance_log EXCEPT ![sess[p].user_id] =
          [base |-> sess[p].amount, added |-> 0, deducted |-> 0, sets |-> @.sets + 1]]
    /\ sess' = [sess EXCEPT ![p] = Finish(@)]
    /\ UNCHANGED <<dbVars, hookVars, sweepVars, payVars, auditVars, products_table, kvVars, schema>>

\* get_or_create_user up to its flush: the user that is there is returned,
\* for a new one the row is built with account_balance 0.00
get_or_create_user_get(p, telegram_id) ==
    /\ Free(p)
    /\ sess' = [sess EXCEPT ![p] =
          IF telegram_id \in DOMAIN users_table
          THEN Returns([@ EXCEPT !.user_id = telegram_id], "get_or_create_user", "user")
          ELSE Pending([@ EXCEPT !.user_id = telegram_id], "get_or_create_user", "user")]
    /\ UNCHANGED <<dbVars, hookVars, sideVars, sweepVars>>

\* user_repo.create and session.commit(): the INSERT, which fails on the
\* primary key when another session has created the user meanwhile
get_or_create_user(p) ==
    /\ Loaded(p, "get_or_create_user")
    /\ users_table' =
          IF sess[p].user_id \in DOMAIN users_table
          THEN users_table
          ELSE [u \in DOMAIN users_table \cup {sess[p].user_id} |->
                   IF u \in DOMAIN users_table THEN users_table[u]
                   ELSE [account_balance |-> 0]]
    /\ sess' = [sess EXCEPT ![p] =
          IF sess[p].user_id \in DOMAIN users_table
          THEN Returns(@, "get_or_create_user", "IntegrityError")
          ELSE Finish(@)]
    /\ UNCHANGED <<dbVars, hookVars, sweepVars, payVars, auditVars, products_table,
                   balance_log, kvVars, schema>>

\* the adds of user u that are under way
AddsInFlight(u) ==
    Cardinality({q \in DOMAIN sess : Loaded(q, "add_balance") /\ sess[q].user_id = u})

\* the calls of set_balance that are under way
SetsInFlight == Cardinality({q \in DOMAIN sess : Loaded(q, "set_balance")})

\* Deposits, payments and corrections of the balance of user 1, and the
\* onboarding of user 1, who is there, and of user 2, who is not there until
\* it creates the row, each in a session of its own, while less than max_added
\* has been added since the last of at most max_sets corrections.
Balance(max_amount, max_added, max_sets) ==
    \E p \in DOMAIN sess :
        \/ \E u \in {1}, amount \in 1..max_amount :
              \/ /\ balance_log[u].added + AddsInFlight(u) * max_amount + amount <= max_added
                 /\ add_balance_get(p, u, amount)
              \/ deduct_balance_get(p, u, amount)
              \/ /\ balance_log[1].sets + balance_log[2].sets + SetsInFlight < max_sets
                 /\ set_balance_get(p, u, amount)
        \/ \E u \in {1, 2} : get_or_create_user_get(p, u)
        \/ add_balance(p)
        \/ deduct_balance(p)
        \/ set_balance(p)
        \/ get_or_create_user(p)
        \/ session_exit(p)

InitBalance ==
    /\ orders = <<>>
    /\ order_items = {}
    /\ product_stocks = <<>>
    /\ sess = [p \in 1..BalSessions |-> Idle]
    /\ sent = [o \in 1..(MaxOrders + 1) |-> 0]
    /\ http = 0
    /\ delivery = NoDelivery
    /\ now = 0
    /\ sweep = NoSweep
    /\ SideInit

NextBalance == Balance(BalAmount, BalAdded, BalSets)

SpecBalance == InitBalance /\ [][NextBalance]_vars

\* ------------------------------------------------------- key-value store
\* InMemoryStorage.get, and a Redis key with a TTL: the entry is there until
\* its expiry time
Alive(entry) == entry.present /\ (entry.expiry = -1 \/ clock < entry.expiry)

\* setex(key, ttl, value)
setex(st, key, ttl, value) ==
    [st EXCEPT ![key] = [present |-> TRUE, value |-> value, expiry |-> clock + ttl]]

\* delete(key)
delete(st, key) == [st EXCEPT ![key] = NoEntry]

\* time passes
Elapse(step, max) ==
    /\ clock + step <= max
    /\ clock' = clock + step
    /\ UNCHANGED <<dbVars, sess, hookVars, sweepVars, payVars, auditVars, products_table,
                   userVars, store, flow, handler, schema>>

\* ---------------------------------------------------------- user session
\* dict.get(key, default)
Get(d, key, default) == IF key \in DOMAIN d THEN d[key] ELSE default

\* the dict save_session stores: six fields, whatever the dict it is given
safe_data(session_data) ==
    [current_flow  |-> Get(session_data, "current_flow", "None"),
     current_step  |-> Get(session_data, "current_step", "None"),
     product_id    |-> Get(session_data, "product_id", NULL),
     quantity      |-> Get(session_data, "quantity", 1),
     category      |-> Get(session_data, "category", "None"),
     last_activity |-> clock]

\* save_session(user.id, session_data), as the last step of a handler
save_session(session_data, result) ==
    /\ store' = setex(store, "session", session_ttl_seconds, safe_data(session_data))
    /\ handler' = [handler EXCEPT !.wrote = TRUE, !.saved = session_data, !.result = result]

\* get_session(user.id) returns a dict
HasSession == Alive(store["session"])

get_session == store["session"].value

\* a handler that returns or raises before it saves anything
Answer(result) ==
    /\ handler' = [handler EXCEPT !.result = result]
    /\ UNCHANGED store

\* d with d[key] = value
Put(d, key, value) == [k \in DOMAIN d \cup {key} |-> IF k = key THEN value ELSE d[k]]

\* clear_session(user.id)
clear_session ==
    /\ store["session"].present
    /\ store' = delete(store, "session")
    /\ handler' = [handler EXCEPT !.wrote = FALSE, !.result = "cleared"]
    /\ UNCHANGED <<dbVars, sess, hookVars, sweepVars, payVars, auditVars, products_table,
                   userVars, clock, flow, schema>>

\* /start of a new user
start_onboarding ==
    /\ save_session([current_flow |-> "onboarding", current_step |-> "name",
                     telegram_username |-> "text"], "name?")
    /\ UNCHANGED <<dbVars, sess, hookVars, sweepVars, payVars, auditVars, products_table,
                   userVars, clock, flow, schema>>

\* a text message of a user who is in the onboarding flow; of the text, its
\* length and whether it has an "@" and a "." matter.  A name of more
\* than 100 characters, a number of more than 20 and an address without "@"
\* or "." are answered and nothing is saved; a well-formed address goes to
\* complete_onboarding, whose UserService() has no session and raises.
handle_onboarding_input(text) ==
    /\ HasSession
    /\ get_session.current_flow = "onboarding"
    /\ IF get_session.current_step = "name"
       THEN IF text.len > 100
            THEN Answer("too long")
            ELSE save_session(Put(Put(get_session, "name", text), "current_step", "whatsapp"),
                              "whatsapp?")
       ELSE IF get_session.current_step = "whatsapp"
       THEN IF text.len > 20
            THEN Answer("invalid number")
            ELSE save_session(Put(Put(get_session, "whatsapp", text), "current_step", "email"),
                              "email?")
       ELSE IF get_session.current_step = "email"
       THEN IF ~text.at \/ ~text.dot
            THEN Answer("invalid email")
            ELSE Answer("raised")
       ELSE Answer("ignored")
    /\ UNCHANGED <<dbVars, sess, hookVars, sweepVars, payVars, auditVars, products_table,
                   userVars, clock, flow, schema>>

\* /start: the session is cleared, then UserRepository() is built without
\* the session its constructor requires and raises
start_command ==
    /\ store' = delete(store, "session")
    /\ handler' = [handler EXCEPT !.wrote = FALSE, !.result = "raised"]
    /\ UNCHANGED <<dbVars, sess, hookVars, sweepVars, payVars, auditVars, products_table,
                   userVars, clock, flow, schema>>

\* the button of a product: ProductRepository() is built without the
\* session its constructor requires and raises before anything is read
handle_product_callback(product_id) ==
    /\ Answer("raised")
    /\ UNCHANGED <<dbVars, sess, hookVars, sweepVars, payVars, auditVars, products_table,
                   userVars, clock, flow, schema>>

\* a quantity button: without an ordering session the user is asked to select
\* a product; with one, ProductRepository() raises before the button is
\* looked at and before the quantity is written
handle_quantity_callback(action, increment) ==
    /\ IF ~HasSession \/ get_session.current_flow # "ordering"
       THEN Answer("no product")
       ELSE Answer("raised")
    /\ UNCHANGED <<dbVars, sess, hookVars, sweepVars, payVars, auditVars, products_table,
                   userVars, clock, flow, schema>>

\* the checkout button: without an ordering session the user is asked to
\* select a product; with one, Decimal(str(None)) raises for a session
\* without a price, and ProductRepository() raises for one that has it
handle_checkout_callback ==
    /\ IF ~HasSession \/ get_session.current_flow # "ordering"
       THEN Answer("no product")
       ELSE Answer("raised")
    /\ UNCHANGED <<dbVars, sess, hookVars, sweepVars, payVars, auditVars, products_table,
                   userVars, clock, flow, schema>>

\* SecureRedisSession.update_session_field(user.id, field, value)
update_session_field(field, value) ==
    /\ IF HasSession
       THEN save_session(Put(Put(get_session, field, value), "last_activity", clock),
                         "updated")
       ELSE Answer("no session")
    /\ UNCHANGED <<dbVars, sess, hookVars, sweepVars, payVars, auditVars, products_table,
                   userVars, clock, flow, schema>>

\* a button of the reply keyboard: the stock list and the account page build
\* a repository without a session and raise
handle_reply_keyboard_button(button_text) ==
    /\ IF button_text = "LIST PRODUK"
       THEN save_session([current_flow |-> "browsing", current_step |-> "menu"], "list")
       ELSE IF button_text = "KIRIM PESAN"
       THEN save_session([current_flow |-> "messaging_admin",
                          current_step |-> "awaiting_message"], "message?")
       ELSE IF button_text \in {"STOK", "AKUN"}
       THEN Answer("raised")
       ELSE Answer("ignored")
    /\ UNCHANGED <<dbVars, sess, hookVars, sweepVars, payVars, auditVars, products_table,
                   userVars, clock, flow, schema>>

\* a product id typed by the user: ProductRepository() raises
handle_product_id_input(product_id) ==
    /\ Answer("raised")
    /\ UNCHANGED <<dbVars, sess, hookVars, sweepVars, payVars, auditVars, products_table,
                   userVars, clock, flow, schema>>

\* a button of the menu: ProductRepository() raises before the action is
\* looked at, so the session is neither cleared nor saved
handle_menu_callback(action) ==
    /\ Answer("raised")
    /\ UNCHANGED <<dbVars, sess, hookVars, sweepVars, payVars, auditVars, products_table,
                   userVars, clock, flow, schema>>

\* the button of a category: ProductRepository() raises
handle_category_callback(category) ==
    /\ Answer("raised")
    /\ UNCHANGED <<dbVars, sess, hookVars, sweepVars, payVars, auditVars, products_table,
                   userVars, clock, flow, schema>>

\* the deposit buttons: "start" opens the selection of an amount
handle_deposit_callback(action) ==
    /\ IF action = "start"
       THEN save_session([current_flow |-> "deposit", current_step |-> "amount_selection"],
                         "amount?")
       ELSE Answer("shown")
    /\ UNCHANGED <<dbVars, sess, hookVars, sweepVars, payVars, auditVars, products_table,
                   userVars, clock, flow, schema>>

\* /skip in the onboarding flow; at the last step complete_onboarding builds
\* UserService() without a session and raises, and the session stays
skip_command ==
    /\ IF ~HasSession \/ get_session.current_flow # "onboarding"
       THEN Answer("nothing to skip")
       ELSE IF get_session.current_step = "name"
       THEN save_session(Put(Put(get_session, "name", "Anonymous"),
                             "current_step", "whatsapp"), "whatsapp?")
       ELSE IF get_session.current_step = "whatsapp"
       THEN save_session(Put(Put(get_session, "whatsapp", "None"),
                             "current_step", "email"), "email?")
       ELSE IF get_session.current_step = "email"
       THEN Answer("raised")
       ELSE Answer("nothing to skip")
    /\ UNCHANGED <<dbVars, sess, hookVars, sweepVars, payVars, auditVars, products_table,
                   userVars, clock, flow, schema>>

\* the buttons and messages of one user while the clock runs
Buttons == {"decrease", "increase", "add", "show"}

AddSteps == {2}

SessionStep == session_ttl_seconds \div 2

\* the texts of the user: a name, a name of 101 characters, a number of 21
\* digits, "a@b" and a well-formed address
Texts ==
    {[len |-> 5, at |-> FALSE, dot |-> FALSE], [len |-> 101, at |-> FALSE, dot |-> FALSE],
     [len |-> 21, at |-> FALSE, dot |-> FALSE], [len |-> 3, at |-> TRUE, dot |-> FALSE],
     [len |-> 7, at |-> TRUE, dot |-> TRUE]}

\* the fields update_session_field is called with, and the value it sets
SessionFields == {"quantity", "current_step", "current_flow", "price"}

UpdateValues ==
    [quantity |-> 5, current_step |-> "menu", current_flow |-> "ordering", price |-> 5]

ReplyButtons == {"LIST PRODUK", "STOK", "AKUN", "KIRIM PESAN"}

MenuButtons == {"main", "categories", "bestsellers", "all_products"}

DepositButtons == {"start", "amount", "custom"}

NextSession ==
    \/ start_command
    \/ start_onboarding
    \/ \E text \in Texts : handle_onboarding_input(text)
    \/ handle_product_callback(1)
    \/ \E action \in Buttons, increment \in AddSteps :
          handle_quantity_callback(action, increment)
    \/ handle_checkout_callback
    \/ \E field \in SessionFields : update_session_field(field, UpdateValues[field])
    \/ \E button_text \in ReplyButtons : handle_reply_keyboard_button(button_text)
    \/ handle_product_id_input(1)
    \/ \E action \in MenuButtons : handle_menu_callback(action)
    \/ handle_category_callback("category")
    \/ \E action \in DepositButtons : handle_deposit_callback(action)
    \/ skip_command
    \/ clear_session
    \/ Elapse(SessionStep, SessionTicks * SessionStep)

SpecSession == InitSeq /\ [][NextSession]_vars

\* ----------------------------------------------------------- rate limiter
\* "current and int(current) >= limit" of the value that get returned
AtLimit(entry, limit) == Alive(entry) /\ entry.value >= limit

\* pipe.incr(key); pipe.expire(key, window): the counter of a key that is not
\* there (or has expired) restarts at 1
incr_expire(st, key, window) ==
    [st EXCEPT ![key] = [present |-> TRUE,
                         value |-> IF Alive(st[key]) THEN st[key].value + 1 ELSE 1,
                         expiry |-> clock + window]]

\* the True answers since the counter last started
Allowed(fl, st) == IF Alive(st["rate"]) THEN fl.allowed + 1 ELSE 1

\* check_rate_limit up to the answer of client.get: a request to Redis, during
\* which other calls run
check_rate_limit_get(c, limit) ==
    /\ flow.use_redis
    /\ flow.pc[c] = "idle"
    /\ flow' = [flow EXCEPT !.history = Append(@, clock),
                            !.pc[c] = IF AtLimit(store["rate"], limit) THEN "idle" ELSE "pipe",
                            !.rejected = @ \/ AtLimit(store["rate"], limit)]
    /\ UNCHANGED <<dbVars, sess, hookVars, sweepVars, payVars, auditVars, products_table,
                   userVars, store, clock, handler, schema>>

\* the pipeline of the call, sent to Redis after the answer of get
check_rate_limit_pipe(c, window) ==
    /\ flow.pc[c] = "pipe"
    /\ store' = incr_expire(store, "rate", window)
    /\ flow' = [flow EXCEPT !.pc[c] = "idle", !.allowed = Allowed(flow, store)]
    /\ UNCHANGED <<dbVars, sess, hookVars, sweepVars, payVars, auditVars, products_table,
                   userVars, clock, handler, schema>>

\* check_rate_limit on InMemoryStorage, whose coroutines never suspend: the
\* get and the pipeline run without another call in between
check_rate_limit(c, limit, window) ==
    /\ ~flow.use_redis
    /\ flow.pc[c] = "idle"
    /\ IF AtLimit(store["rate"], limit)
       THEN /\ flow' = [flow EXCEPT !.history = Append(@, clock), !.rejected = TRUE]
            /\ UNCHANGED store
       ELSE /\ store' = incr_expire(store, "rate", window)
            /\ flow' = [flow EXCEPT !.history = Append(@, clock),
                                    !.allowed = Allowed(flow, store)]
    /\ UNCHANGED <<dbVars, sess, hookVars, sweepVars, payVars, auditVars, products_table,
                   userVars, clock, handler, schema>>

\* the store is Redis or the in-memory fallback
InitRedis ==
    /\ orders = <<>>
    /\ order_items = {}
    /\ product_stocks = <<>>
    /\ sess = [p \in {1} |-> Idle]
    /\ sent = [o \in 1..(MaxOrders + 1) |-> 0]
    /\ http = 0
    /\ delivery = NoDelivery
    /\ now = 0
    /\ sweep = NoSweep
    /\ schema = Created
    /\ bill = NoBill
    /\ gateway = NoGateway
    /\ audit_db = [t \in AuditTables |-> <<>>]
    /\ audit_sess = NoAudit
    /\ products_table = [pr \in Products |-> [sold_count |-> 0]]
    /\ users_table = [u \in {1} |-> [account_balance |-> 0]]
    /\ balance_log = [u \in {1, 2} |-> NoBalance]
    /\ StoreInit
    /\ flow \in {[NoFlow(1..RateCallers) EXCEPT !.use_redis = b] : b \in BOOLEAN}

\* Calls for one (user, action) key with limit RateLimit and window RateWindow
NextRate ==
    \/ \E c \in 1..RateCallers :
          \/ /\ Len(flow.history) < RateCalls
             /\ \/ check_rate_limit_get(c, RateLimit)
                \/ check_rate_limit(c, RateLimit, RateWindow)
          \/ check_rate_limit_pipe(c, RateWindow)
    \/ Elapse(1, RateClock)

SpecRate == InitRedis /\ [][NextRate]_vars

\* ---------------------------------------------------- payment expiry queue
\* seconds that InMemoryStorage keeps a sorted set after its last write
zset_ttl == 86400

\* d without the key
Pop(d, key) == [k \in DOMAIN d \ {key} |-> d[k]]

\* the sorted set under the key: json.loads(current) if current else {}
zset(st, key) == IF Alive(st[key]) THEN st[key].value ELSE <<>>

\* zadd(key, {member: score}).  Redis keeps a sorted set until its last member
\* is removed; InMemoryStorage writes it back with setex(key, 86400, ...)
zadd(st, key, member, score, use_redis) ==
    [st EXCEPT ![key] = [present |-> TRUE,
                         value |-> Put(zset(st, key), member, score),
                         expiry |-> IF use_redis THEN -1 ELSE clock + zset_ttl]]

\* zrangebyscore(key, min_score, max_score)
zrangebyscore(st, key, min_score, max_score) ==
    {member \in DOMAIN zset(st, key) :
        min_score <= zset(st, key)[member] /\ zset(st, key)[member] <= max_score}

\* zrem(key, member)
zrem(st, key, member, use_redis) ==
    IF ~Alive(st[key]) THEN st
    ELSE IF use_redis /\ DOMAIN Pop(st[key].value, member) = {} THEN delete(st, key)
    ELSE [st EXCEPT ![key] = [present |-> TRUE,
                              value |-> Pop(st[key].value, member),
                              expiry |-> IF use_redis THEN -1 ELSE clock + zset_ttl]]

schedule_payment_expiry(order_id, expires_at) ==
    /\ store' = zadd(store, "queue", order_id, expires_at, flow.use_redis)
    /\ flow' = [flow EXCEPT !.scheduled = Put(@, order_id, expires_at)]
    /\ UNCHANGED <<dbVars, sess, hookVars, sweepVars, payVars, auditVars, products_table,
                   userVars, clock, handler, schema>>

\* what get_expired_payments returns now
queue_expired_payments == zrangebyscore(store, "queue", 0, clock)

\* zrem is called for any id, in the queue or not
remove_from_queue(order_id) ==
    /\ store' = zrem(store, "queue", order_id, flow.use_redis)
    /\ flow' = [flow EXCEPT !.scheduled = Pop(@, order_id)]
    /\ UNCHANGED <<dbVars, sess, hookVars, sweepVars, payVars, auditVars, products_table,
                   userVars, clock, handler, schema>>

\* half the payment window, in seconds
QueueStep == (payment_expiry_minutes * 60) \div 2

\* Orders are scheduled to expire a payment window after now and are removed
\* while the clock runs; a day may pass without a write to the queue.
NextQueue ==
    \/ \E order_id \in 1..QueueOrders :
          \/ schedule_payment_expiry(order_id, clock + payment_expiry_minutes * 60)
          \/ remove_from_queue(order_id)
    \/ /\ (clock % zset_ttl) + QueueStep <= QueueTicks * QueueStep
       /\ Elapse(QueueStep, zset_ttl + QueueTicks * QueueStep)
    \/ Elapse(zset_ttl, zset_ttl + QueueTicks * QueueStep)

SpecQueue == InitRedis /\ [][NextQueue]_vars

\* --------------------------------------------------------- stock deletion
\* a row of product_stocks that was deleted; its id (a UUID) is not used again
Deleted == [product_id |-> NULL, is_sold |-> FALSE, order_id |-> NULL]

\* order_items.stock_id REFERENCES product_stocks(id): an item points at the unit
Referenced(stock_id) == \E i \in order_items : i.stock_id = stock_id

\* the rows the session has loaded are still in the table
Fresh(p) == \A u \in DOMAIN sess[p].stocks : product_stocks[u] # Deleted

\* "if stock and not stock.is_sold"
Deletable(row) == row # Deleted /\ ~row.is_sold

\* delete_stock up to its flush: the row is loaded and marked for deletion
delete_stock_get(p, stock_id) ==
    /\ Free(p)
    /\ sess' = [sess EXCEPT ![p] =
          IF stock_id \in StockIds /\ Deletable(product_stocks[stock_id])
          THEN Pending([@ EXCEPT !.stocks = Load(product_stocks, {stock_id})],
                       "delete_stock", "True")
          ELSE Returns(@, "delete_stock", "False")]
    /\ UNCHANGED <<dbVars, hookVars, sideVars, sweepVars>>

\* the DELETEs of a flush.  The foreign key of order_items refuses the DELETE
\* of a unit that an item points at: IntegrityError, and the transaction is
\* rolled back.
DeleteLoaded(s) ==
    IF \E u \in DOMAIN s.stocks : Referenced(u)
    THEN product_stocks
    ELSE [u \in StockIds |-> IF u \in DOMAIN s.stocks THEN Deleted ELSE product_stocks[u]]

delete_stock(p) ==
    /\ Loaded(p, "delete_stock")
    /\ product_stocks' = DeleteLoaded(sess[p])
    /\ sess' = [sess EXCEPT ![p] = Finish(@)]
    /\ UNCHANGED <<orders, order_items, hookVars, sideVars, sweepVars>>

\* the rows delete_all_stock selects
stocks_to_delete(product_id, only_unsold) ==
    {u \in StockIds : /\ product_stocks[u].product_id = product_id
                      /\ only_unsold => ~product_stocks[u].is_sold}

delete_all_stock_get(p, product_id, only_unsold) ==
    /\ Free(p)
    /\ sess' = [sess EXCEPT ![p] =
          Pending([@ EXCEPT !.product_id = product_id, !.only_unsold = only_unsold,
                            !.stocks = Load(product_stocks,
                                            stocks_to_delete(product_id, only_unsold)),
                            !.count = Cardinality(stocks_to_delete(product_id, only_unsold))],
                  "delete_all_stock", "deleted")]
    /\ UNCHANGED <<dbVars, hookVars, sideVars, sweepVars>>

delete_all_stock(p) ==
    /\ Loaded(p, "delete_all_stock")
    /\ product_stocks' = DeleteLoaded(sess[p])
    /\ sess' = [sess EXCEPT ![p] = Finish(@)]
    /\ UNCHANGED <<orders, order_items, hookVars, sideVars, sweepVars>>

\* the flush of a session whose loaded row was deleted by another session:
\* the UPDATE matches no row, StaleDataError, rollback
stale_data(p) ==
    /\ sess[p].pc = "flush"
    /\ sess[p].op = "reserve_stock"
    /\ ~Fresh(p)
    /\ sess' = [sess EXCEPT ![p] = Finish(@)]
    /\ UNCHANGED <<dbVars, hookVars, sideVars, sweepVars>>

\* An admin deletes units of product 1 while a checkout reserves them and
\* the expiry of the order releases them.
DeleteStock ==
    \E p \in DOMAIN sess :
        \/ \E u \in StockIds : delete_stock_get(p, u)
        \/ delete_stock(p)
        \/ \E only_unsold \in BOOLEAN : delete_all_stock_get(p, 1, only_unsold)
        \/ delete_all_stock(p)

InitDelete ==
    /\ orders = <<>>
    /\ order_items = {}
    /\ product_stocks = <<>>
    /\ sess = [p \in 1..DelSessions |-> Idle]
    /\ sent = [o \in 1..(MaxOrders + 1) |-> 0]
    /\ http = 0
    /\ delivery = NoDelivery
    /\ now = 0
    /\ sweep = NoSweep
    /\ SideInit

NextDelete ==
    \/ Checkout(1, DelOrders)
    \/ SessionExit
    \/ AddStock(1, DelStocks)
    \/ \E p \in DOMAIN sess :
          \/ \E o \in OrderIds : reserve_stock_get(p, 1, 1, o)
          \/ Fresh(p) /\ reserve_stock(p)
          \/ \E o \in OrderIds : expire_order(p, o)
          \/ stale_data(p)
    \/ AddOrderItem
    \/ DeleteStock

SpecDelete == InitDelete /\ [][NextDelete]_vars

\* ------------------------------------------------------------ the tables
\* DatabaseManager.drop_all_tables: refused in production; otherwise
\* Base.metadata.drop_all runs in a transaction of the main engine and then in
\* one of the audit engine, and every row of every table goes with its table.
\* DROP TABLE waits for the sessions that have a transaction open.
drop_all_tables(is_production) ==
    /\ \/ /\ schema.pc = "idle"
          /\ IF is_production
             THEN /\ schema' = [schema EXCEPT !.result = "RuntimeError"]
                  /\ UNCHANGED <<dbVars, products_table, userVars>>
             ELSE /\ \A p \in DOMAIN sess : sess[p].pc \in {"idle", "done"}
                  /\ orders' = <<>>
                  /\ order_items' = {}
                  /\ product_stocks' = <<>>
                  /\ products_table' = <<>>
                  /\ users_table' = <<>>
                  /\ balance_log' = [u \in DOMAIN balance_log |-> NoBalance]
                  /\ schema' = [schema EXCEPT !.main = FALSE, !.pc = "drop_audit",
                                              !.result = ""]
          /\ UNCHANGED auditVars
       \/ /\ schema.pc = "drop_audit"
          /\ audit_sess.pc = "closed"
          /\ audit_db' = [t \in AuditTables |-> <<>>]
          /\ schema' = [schema EXCEPT !.audit = FALSE, !.pc = "idle", !.result = "dropped"]
          /\ UNCHANGED <<dbVars, products_table, userVars, audit_sess>>
    /\ UNCHANGED <<sess, hookVars, sweepVars, payVars, kvVars>>

\* DatabaseManager.create_all_tables: Base.metadata.create_all on the main
\* engine and then on the audit engine; a table that is there is left as it is
create_all_tables ==
    /\ \/ /\ schema.pc = "idle"
          /\ schema' = [schema EXCEPT !.main = TRUE, !.pc = "create_audit", !.result = ""]
       \/ /\ schema.pc = "create_audit"
          /\ schema' = [schema EXCEPT !.audit = TRUE, !.pc = "idle", !.result = "created"]
    /\ UNCHANGED <<dbVars, sess, hookVars, sweepVars, payVars, auditVars, products_table,
                   userVars, kvVars>>

\* a statement of session p on a table that was dropped raises, and
\* get_main_session rolls back and raises the error again
undefined_table(p) ==
    /\ sess[p].pc = "idle"
    /\ ~schema.main
    /\ sess' = [sess EXCEPT ![p] = Returns(@, "execute", "ProgrammingError")]
    /\ UNCHANGED <<dbVars, hookVars, sideVars, sweepVars>>

\* Users, products, orders, stock units and audit rows are written while the
\* tables are dropped and created again; an order is created for a user that
\* is there and a unit added to a product that is there.
NextSchema ==
    \/ \E p \in DOMAIN sess :
          \/ get_or_create_user_get(p, 1)
          \/ get_or_create_user(p)
          \/ /\ Cardinality(DOMAIN products_table) < MaxProducts
             /\ create_product(p, 0)
          \/ /\ Len(orders) + InFlightCreates < StatOrders
             /\ \E u \in DOMAIN users_table : create_get(p, u, "pending")
          \/ create(p)
          \/ /\ Len(product_stocks) < StatStocks
             /\ \E pr \in DOMAIN products_table : add_stock(p, pr)
          \/ undefined_table(p)
          \/ session_exit(p)
    \/ /\ AuditRowCount < AuditRows
       /\ log_action("order", 1, "paid")
    \/ audit_commit
    \/ \E is_production \in BOOLEAN : drop_all_tables(is_production)
    \/ create_all_tables

SpecSchema == InitSeq /\ [][NextSchema]_vars

\* ================================================================ claims
Terminal == {"paid", "expired", "cancelled"}

\* C1: every user has at most one order in status pending, however the
\* checkout attempts (has_pending_order, then create) of that user interleave.
C1_SinglePendingOrder ==
    \A user_id \in Users : Cardinality(PendingOrders(user_id)) <= 1

\* the non-terminal orders that hold stock unit u as one of their items
Holders(u) == {o \in OrderIds : orders[o].status = "pending" /\ u \in ItemsOf(o)}

\* C2: a stock unit is held by at most one non-terminal order, and two
\* reserve_stock calls for different orders never return the same unit.
C2_ReservationExclusive ==
    /\ \A u \in StockIds : Cardinality(Holders(u)) <= 1
    /\ \A p \in DOMAIN sess, q \in DOMAIN sess :
          (/\ Loaded(p, "reserve_stock") /\ Loaded(q, "reserve_stock")
           /\ sess[p].order_id # sess[q].order_id)
          => DOMAIN sess[p].stocks \cap DOMAIN sess[q].stocks = {}

ReserveCalls(result) ==
    {p \in DOMAIN sess : sess[p].pc = "done" /\ sess[p].op = "reserve_stock"
                         /\ sess[p].result = result}

\* C3: once the NUnits + 1 single-unit reserve calls on a product with NUnits
\* unsold units have returned, NUnits of them have succeeded with distinct
\* units and one has failed with InsufficientStock.
C3_NReservesThenInsufficient ==
    (\A p \in DOMAIN sess : sess[p].pc = "done") =>
        /\ Cardinality(ReserveCalls("reserved")) = NUnits
        /\ Cardinality(ReserveCalls("InsufficientStock")) = 1
        /\ \A p \in ReserveCalls("reserved"), q \in ReserveCalls("reserved") :
              p # q => DOMAIN sess[p].stocks \cap DOMAIN sess[q].stocks = {}

\* the calls of `op` that have ended for an order that exists
Ended(op) ==
    {p \in DOMAIN sess : /\ sess[p].pc = "exit" /\ sess[p].op = op
                         /\ sess[p].order_id \in OrderIds}

\* C4: of a settlement and an expiry of the same order one succeeds and the
\* other one is rejected as an invalid transition (or, for the expiry, is a
\* no-op), and no order is paid while a stock unit of its items has been
\* released.
C4_OneTransitionWins ==
    /\ \A p \in Ended("complete_order"), q \in Ended("expire_order") :
          sess[p].order_id = sess[q].order_id
          => \/ sess[p].result = "order" /\ sess[q].result \in {"False", "InvalidTransition"}
             \/ sess[p].result = "InvalidTransition" /\ sess[q].result = "True"
    /\ \A i \in order_items :
          orders[i.order_id].status = "paid" =>
              /\ product_stocks[i.stock_id].is_sold
              /\ product_stocks[i.stock_id].order_id = i.order_id

\* C5: no ledger operation changes the status of an order that is paid,
\* expired or cancelled.
C5_TerminalIsFinal ==
    [][\A o \in OrderIds :
          orders[o].status \in Terminal => orders'[o].status = orders[o].status]_vars

\* C5 happens: update_status, complete_order or cancel_order has been called
\* on an order that is paid, expired or cancelled.
C5_Witness ==
    \E p \in Ended("update_status") \cup Ended("complete_order") \cup Ended("cancel_order") :
        /\ orders[sess[p].order_id].status \in Terminal
        /\ sess[p].op = "update_status" => sess[p].new_status # orders[sess[p].order_id].status

\* C6: a complete_order call on an order either makes the order paid and
\* returns it, or is rejected as an invalid transition, which it is when the
\* order is not pending.
C6_MarkPaidOnlyFromPending ==
    \A p \in Ended("complete_order") :
        \/ sess[p].result = "order" /\ orders[sess[p].order_id].status = "paid"
        \/ sess[p].result = "InvalidTransition"

\* C7: however often the completed webhook of an order is replayed, the order
\* becomes paid and its buyer gets one fulfilment message, never a second one.
C7_IdempotentSettlement ==
    \A o \in OrderIds :
        /\ sent[o] <= 1
        /\ sent[o] >= 1 => orders[o].status = "paid"

\* C8: a completed webhook for an order that is already expired leaves the
\* order expired and sends no fulfilment message for it.
C8_LateWebhookRejected ==
    [][\A o \in OrderIds :
          orders[o].status = "expired" =>
              /\ orders'[o].status = "expired"
              /\ sent'[o] = sent[o]]_vars

\* the stock rows a step changes
ChangedStocks == {u \in StockIds : product_stocks'[u] # product_stocks[u]}

\* the stock rows a step makes unsold and unreserved
ReleasedStocks ==
    {u \in ChangedStocks : ~product_stocks'[u].is_sold /\ product_stocks'[u].order_id = NULL}

\* C9: reserve_stock is all-or-nothing.  A call fails with InsufficientStock
\* exactly when the product has fewer unsold units than requested, and a
\* failing call changes no stock row; a call that succeeds marks exactly
\* `quantity` rows sold and reserved for its order and changes no other row.
C9_ReserveAllOrNothing ==
    [][\A p \in DOMAIN sess :
          /\ (Free(p) /\ sess'[p].op = "reserve_stock") =>
                /\ (sess'[p].result = "InsufficientStock")
                      <=> (Cardinality({u \in StockIds :
                               /\ product_stocks[u].product_id = sess'[p].product_id
                               /\ ~product_stocks[u].is_sold}) < sess'[p].quantity)
                /\ sess'[p].result \in {"InsufficientStock", "reserved"}
                /\ product_stocks' = product_stocks
          /\ (/\ sess[p].op = "reserve_stock" /\ sess[p].result = "InsufficientStock"
              /\ sess'[p] # sess[p]) =>
                product_stocks' = product_stocks
          /\ (Loaded(p, "reserve_stock") /\ ~Loaded(p, "reserve_stock")') =>
                /\ Cardinality(ChangedStocks) = sess[p].quantity
                /\ \A u \in ChangedStocks :
                      /\ product_stocks'[u].is_sold
                      /\ product_stocks'[u].order_id = sess[p].order_id
                      /\ product_stocks[u].product_id = sess[p].product_id
                /\ Len(product_stocks') = Len(product_stocks)]_vars

\* C9 happens: a request for two units has failed on a product that has one
\* unsold unit left next to a unit that an earlier call reserved.
C9_Witness ==
    \E p \in DOMAIN sess :
        /\ sess[p].op = "reserve_stock" /\ sess[p].result = "InsufficientStock"
        /\ sess[p].quantity = 2
        /\ Cardinality({u \in StockIds : product_stocks[u].product_id = sess[p].product_id
                                         /\ ~product_stocks[u].is_sold}) = 1
        /\ \E u \in StockIds : /\ product_stocks[u].is_sold
                               /\ product_stocks[u].product_id = sess[p].product_id

\* C10: a stock unit that is not sold is reserved for no order.
C10_UnsoldIsUnreserved ==
    \A u \in StockIds : ~product_stocks[u].is_sold => product_stocks[u].order_id = NULL

\* C10 happens: after a call of expire_order or cancel_order one unit is
\* sold and reserved for an order, and the unit of an item of an order is
\* unsold and unreserved.
C10_Witness ==
    /\ \E p \in Ended("expire_order") \cup Ended("cancel_order") : TRUE
    /\ \E i \in order_items :
          /\ ~product_stocks[i.stock_id].is_sold
          /\ product_stocks[i.stock_id].order_id = NULL
    /\ \E u \in StockIds :
          product_stocks[u].is_sold /\ product_stocks[u].order_id \in OrderIds

\* the orders that hold their stock: not expired and not cancelled
Live == {"pending", "paid"}

\* C11: an order and its reservation exist together: every item of an order
\* that holds its stock points at a unit that is sold and reserved for that
\* order, and every reserved unit refers to an order that exists.
C11_OrderAndReservationTogether ==
    /\ \A i \in order_items :
          orders[i.order_id].status \in Live =>
              /\ product_stocks[i.stock_id].is_sold
              /\ product_stocks[i.stock_id].order_id = i.order_id
    /\ \A u \in StockIds : product_stocks[u].order_id \in {NULL} \cup OrderIds

\* the order rows a step changes
ChangedOrders == {o \in OrderIds : orders'[o] # orders[o]}

\* C12: an expire_order call returns True or False and never an error: True
\* for an order that was pending, which is then expired with no unit left
\* reserved through its items, False for an order that is paid, expired,
\* cancelled or missing, which it leaves as it is.
C12_ExpireOnlyPending ==
    \A p \in DOMAIN sess :
        (sess[p].pc = "exit" /\ sess[p].op = "expire_order")
        => /\ sess[p].result \in {"True", "False"}
           /\ sess[p].result = "True" =>
                 /\ orders[sess[p].order_id].status = "expired"
                 /\ \A u \in ItemsOf(sess[p].order_id) : ~product_stocks[u].is_sold
           /\ sess[p].result = "False" =>
                 \/ sess[p].order_id \notin OrderIds
                 \/ orders[sess[p].order_id].status # "pending"

\* C13: a cancel_order call on an order that is pending makes the order
\* cancelled, and on an order that is paid, expired or cancelled it leaves
\* the order as it is; it never ends with an error of the query.
C13_CancelOnlyPending ==
    /\ \A p \in Ended("cancel_order") :
          /\ sess[p].result \in {"True", "False"}
          /\ sess[p].result = "True" => orders[sess[p].order_id].status = "cancelled"
          /\ sess[p].result = "False" => orders[sess[p].order_id].status # "pending"
    /\ \A p \in Ended("cancel_order") : orders[sess[p].order_id].status # "pending"

\* C14: release_stock returns the number k of units reserved for the order
\* and makes exactly those units unsold and unreserved, after which no unit is
\* reserved for the order: a further call, and a call on an order without
\* reservations, returns 0 and changes no unit.
C14_ReleaseIdempotent ==
    [][\A p \in DOMAIN sess :
          /\ (Free(p) /\ sess'[p].op = "release_stock") =>
                /\ released_count(sess'[p]) =
                      Cardinality({u \in StockIds :
                                     product_stocks[u].order_id = sess'[p].order_id})
                /\ UNCHANGED dbVars
          /\ (Loaded(p, "release_stock") /\ ~Loaded(p, "release_stock")') =>
                /\ ChangedStocks = DOMAIN sess[p].stocks
                /\ ReleasedStocks = ChangedStocks
                /\ Cardinality(ChangedStocks) = released_count(sess[p])
                /\ \A u \in StockIds : product_stocks'[u].order_id # sess[p].order_id
                /\ Len(product_stocks') = Len(product_stocks)
                /\ UNCHANGED <<orders, order_items>>]_vars

\* C14 happens: release_stock is called again on an order whose unit an
\* earlier call has released, and returns 0.
C14_Witness ==
    \E p \in DOMAIN sess :
        /\ Loaded(p, "release_stock")
        /\ released_count(sess[p]) = 0
        /\ sess[p].order_id \in OrderIds
        /\ \E u \in ItemsOf(sess[p].order_id) :
              ~product_stocks[u].is_sold /\ product_stocks[u].order_id = NULL

\* a step that answers a webhook delivery
Handled == hookVars' # hookVars /\ delivery'.pc = "done"

\* C15: with a webhook secret configured, a delivery whose signature is wrong
\* or missing is answered 401 Invalid signature, changes no order and no stock
\* unit and sends no message.
C15_BadSignatureRejected ==
    [][(Handled /\ delivery'.secret /\ delivery'.signature # "good")
          => /\ http' = 401
             /\ delivery'.message = "Invalid signature"
             /\ sent' = sent
             /\ UNCHANGED dbVars]_vars

\* C16 as claimed: a delivery is answered 400 Missing required fields exactly
\* when order_id, status or amount is absent from the payload.
C16_MalformedIffAbsent ==
    [][Handled =>
          ((delivery'.message = "Missing required fields")
             <=> (\/ delivery'.order_id = -1
                  \/ delivery'.status = "absent"
                  \/ delivery'.amount = -1))]_vars

\* C16 as amended: a delivery whose body is a JSON object is answered 400
\* Missing required fields exactly when order_id, status or amount is absent
\* or empty (0, ""); the rejection changes no order and no stock unit and
\* sends no message.
C16_MalformedIffAbsentOrEmpty ==
    [][(Handled /\ delivery'.json) =>
          /\ (delivery'.message = "Missing required fields")
                <=> (\/ delivery'.order_id \in {-1, 0}
                     \/ delivery'.status \in {"absent", ""}
                     \/ delivery'.amount \in {-1, 0})
          /\ (delivery'.message = "Missing required fields")
                => /\ http' = 400
                   /\ sent' = sent
                   /\ UNCHANGED <<dbVars, sess>>]_vars

\* C16 happens: a payload whose amount is 0 has been rejected, after a message
\* was sent for an earlier delivery.
C16_Witness ==
    /\ delivery.message = "Missing required fields"
    /\ delivery.amount = 0 /\ delivery.order_id \in OrderIds /\ delivery.status = "completed"
    /\ http = 400
    /\ \E o \in OrderIds : sent[o] > 0

\* C17: a delivery whose order reference resolves to no order is rejected: it
\* is not answered 200, creates no order, changes no order and no stock unit
\* and sends no message.
C17_UnknownOrderRejected ==
    [][(Handled /\ delivery'.order_id \notin OrderIds)
          => /\ http' # 200
             /\ sent' = sent
             /\ UNCHANGED dbVars]_vars

\* a status that is there and is neither a settlement nor an expiry: pending,
\* or one the handler does not know
OnlyLogged(status) == status \notin {"completed", "expired", "absent", ""}

\* C18 as claimed: a delivery that has an order_id, an amount and the status
\* pending, or a status that is none of completed, pending and expired, is
\* answered 200, changes no order and no stock unit and sends no message.
C18_PendingAndUnknownOnlyLogged ==
    [][(/\ Handled /\ delivery'.json /\ OnlyLogged(delivery'.status)
        /\ delivery'.order_id # ABSENT /\ delivery'.amount # ABSENT)
          => /\ http' = 200 /\ delivery'.message = "ok"
             /\ sent' = sent
             /\ UNCHANGED <<dbVars, sess>>]_vars

\* C18 as amended: such a delivery is answered 200 when its order_id and its
\* amount are there and not empty, and 400 Missing required fields when one
\* of them is absent or empty (0, ""); either way it is not answered with an
\* error of the handler, changes no order and no stock unit and sends no
\* message.
C18_LoggedWhenFieldsNonEmpty ==
    [][(Handled /\ delivery'.json /\ OnlyLogged(delivery'.status))
          => /\ IF delivery'.order_id \notin {ABSENT, 0} /\ delivery'.amount \notin {ABSENT, 0}
                THEN http' = 200 /\ delivery'.message = "ok"
                ELSE http' = 400 /\ delivery'.message = "Missing required fields"
             /\ sent' = sent
             /\ UNCHANGED <<dbVars, sess>>]_vars

\* C18 happens: a delivery with an unknown status for a pending order has been
\* answered 200, after a message was sent for an earlier delivery.
C18_Witness ==
    /\ delivery.status = "refunded" /\ http = 200
    /\ delivery.order_id \in OrderIds /\ orders[delivery.order_id].status = "pending"
    /\ \E o \in OrderIds : sent[o] > 0

\* order o is pending and as old as the payment window
AgedPending(o) ==
    IF o \in OrderIds
    THEN orders[o].status = "pending" /\ orders[o].created_at <= now - PaymentWindow
    ELSE FALSE

\* order o is expired, no unit is reserved for it and its units are for sale
\* again or reserved for another order
ExpiredAndReleased(o) ==
    IF o \in OrderIds
    THEN /\ orders[o].status = "expired"
         /\ \A u \in StockIds : product_stocks[u].order_id # o
         /\ \A u \in ItemsOf(o) :
               ~product_stocks[u].is_sold \/ product_stocks[u].order_id # NULL
    ELSE FALSE

\* C19: an order that is pending when its age has reached the payment window
\* is eventually expired by the sweeper, and then no stock unit is reserved
\* for it.
C19_AgedPendingEventuallyExpired ==
    \A o \in 1..SweepOrders : AgedPending(o) ~> ExpiredAndReleased(o)

\* C21: the payment fee of every subtotal is round(subtotal * 0.007) + 310,
\* the product rounded to the nearest rupiah; 1010 for 100000 and 310 for 0.
C21_FeeRounded ==
    bill.fee # -1 =>
        /\ bill.fee = (2 * bill.subtotal * FeePerMille + 1000) \div 2000 + payment_fee_fixed
        /\ bill.subtotal = TestSubtotal => bill.fee = 1010
        /\ bill.subtotal = 0 => bill.fee = 310

\* C22: while the last health probe has failed and the gateway is still not
\* answering 200, no payment-creation request is sent to it.
C22_NoRequestWhenProbeFails ==
    [][(gateway.healthy = "False" /\ gateway.state # "ok")
          => gateway'.requests = gateway.requests]_vars

\* an audit row of the event exists: committed in db, or added in session s
AuditedIn(db, s, entity_type, entity_id, action) ==
    \E t \in AuditTables :
        LET rows == db[t] \o AddedTo(t, s.added)
        IN  \E i \in DOMAIN rows : /\ rows[i].entity_type = entity_type
                                   /\ rows[i].entity_id = entity_id
                                   /\ rows[i].action = action

\* C23: every step that changes the status of an order, or that reserves or
\* releases a stock unit, leaves an audit row that records it.
C23_TransitionsAudited ==
    [][/\ \A o \in OrderIds :
             orders'[o].status # orders[o].status
             => \/ AuditedIn(audit_db', audit_sess', "order", o, orders'[o].status)
                \/ AuditedIn(audit_db', audit_sess', "payment", o, orders'[o].status)
       /\ \A u \in StockIds :
             product_stocks'[u].is_sold # product_stocks[u].is_sold
             => AuditedIn(audit_db', audit_sess', "stock", u,
                          IF product_stocks'[u].is_sold THEN "reserve" ELSE "release")]_vars

\* C24: no step of the audit recorder changes or removes a committed audit
\* row: every table keeps its rows, in place, and only grows at its end.
C24_AuditAppendOnly ==
    [][\A t \in AuditTables :
          /\ Len(audit_db'[t]) >= Len(audit_db[t])
          /\ \A i \in DOMAIN audit_db[t] : audit_db'[t][i] = audit_db[t][i]]_vars

\* committed rows in two tables, and a later write that failed and was rolled back
C24_Witness ==
    /\ Len(audit_db["audit_logs"]) >= 1
    /\ Len(audit_db["admin_action_audit"]) >= 1
    /\ audit_sess.raised

\* C25: an audit session that closes without committing the rows it added
\* has raised its error, and a webhook step that confirms a settlement (the
\* fulfilment message is sent) leaves a payment audit row of that order.
C25_AuditFailureEscalated ==
    [][/\ (/\ audit_sess.pc = "open" /\ audit_sess.added # <<>>
           /\ audit_sess'.pc = "closed" /\ audit_db' = audit_db)
          => audit_sess'.raised
       /\ \A o \in DOMAIN sent :
             sent'[o] # sent[o]
             => AuditedIn(audit_db', audit_sess', "payment", o, "paid")]_vars

\* C26: the step that makes an order paid adds the number of the order's
\* units of each product to that product's sold_count, and sold_count is the
\* number of the product's units reserved for paid orders.
C26_SoldCountMatchesPaidUnits ==
    [][/\ \A o \in OrderIds :
             (orders[o].status # "paid" /\ orders'[o].status = "paid")
             => \A pr \in DOMAIN products_table :
                   products_table'[pr].sold_count =
                       products_table[pr].sold_count + Cardinality(UnitsOf(o, pr))
       /\ \A pr \in DOMAIN products_table' :
             products_table'[pr].sold_count =
                 Cardinality({u \in 1..Len(product_stocks') :
                     /\ product_stocks'[u].product_id = pr
                     /\ product_stocks'[u].order_id # NULL
                     /\ orders'[product_stocks'[u].order_id].status = "paid"})]_vars

\* C27: the count a reader gets is the number of the product's units whose
\* committed row has is_sold = FALSE, and these are the units that no
\* committed reservation holds (order_id is NULL): a unit of a committed
\* reservation is not counted, a unit of a committed release is.
C27_CountIsCommittedUnsold ==
    [][\A p \in DOMAIN sess :
          (/\ Free(p)
           /\ sess'[p].pc = "exit"
           /\ sess'[p].op = "get_available_stock_count")
          => /\ sess'[p].count =
                   Cardinality({u \in StockIds :
                       /\ product_stocks[u].product_id = sess'[p].product_id
                       /\ product_stocks[u].is_sold = FALSE})
             /\ sess'[p].count =
                   Cardinality({u \in StockIds :
                       /\ product_stocks[u].product_id = sess'[p].product_id
                       /\ product_stocks[u].order_id = NULL})]_vars

\* a reader has counted one of two units: one is reserved and committed, the
\* other is in a reservation that another session has not committed yet
C27_Witness ==
    \E p \in DOMAIN sess, q \in DOMAIN sess :
        /\ sess[p].pc = "exit" /\ sess[p].op = "get_available_stock_count"
        /\ sess[p].count = 1
        /\ Len(product_stocks) = 2
        /\ \E u \in StockIds : product_stocks[u].is_sold
        /\ Loaded(q, "reserve_stock") /\ sess[q].stocks # <<>>

\* C28: a call of get_expired_payments returns a list of orders, and every
\* order in it is pending and was created at least payment_expiry_minutes
\* ago; it returns no paid, expired or cancelled order and no pending order
\* younger than that.
C28_SelectsOnlyAgedPending ==
    [][\A p \in DOMAIN sess :
          (/\ Free(p)
           /\ sess'[p].pc = "exit"
           /\ sess'[p].op = "get_expired_payments")
          => /\ sess'[p].result = "orders"
             /\ \A o \in sess'[p].selected :
                   /\ o \in OrderIds
                   /\ orders[o].status = "pending"
                   /\ orders[o].status \notin Terminal
                   /\ now - orders[o].created_at >= payment_expiry_minutes]_vars

\* C29: after every step each unit of an item of a paid order is sold and
\* reserved for that order, and no step takes such a unit from a paid order.
C29_PaidUnitsStayReserved ==
    [][\A i \in order_items' :
          orders'[i.order_id].status = "paid"
          => /\ product_stocks'[i.stock_id].is_sold = TRUE
             /\ product_stocks'[i.stock_id].order_id = i.order_id
             /\ (i \in order_items /\ orders[i.order_id].status = "paid")
                   => product_stocks'[i.stock_id] = product_stocks[i.stock_id]]_vars

\* C30: a call of expire_order(A) or cancel_order(A) leaves every stock unit
\* that is reserved for another order B as it is.
C30_ReleaseLeavesOtherOrders ==
    [][\A p \in DOMAIN sess :
          (Free(p) /\ sess'[p].op \in {"expire_order", "cancel_order"})
          => \A u \in StockIds :
                (/\ product_stocks[u].order_id # NULL
                 /\ product_stocks[u].order_id # sess'[p].order_id)
                => /\ product_stocks'[u].is_sold = product_stocks[u].is_sold
                   /\ product_stocks'[u].order_id = product_stocks[u].order_id]_vars

\* C30 happens: expire_order or cancel_order has been called on an order A
\* that has an item whose unit is reserved for another order B.
C30_Witness ==
    \E p \in Ended("expire_order") \cup Ended("cancel_order") :
        \E u \in ItemsOf(sess[p].order_id) :
            /\ product_stocks[u].is_sold
            /\ product_stocks[u].order_id \in OrderIds \ {sess[p].order_id}

\* C31: a call of expire_order(A) or cancel_order(A) on a pending order A
\* releases the units that release_stock(A) would release, the units whose
\* order_id is A, and leaves no unit reserved for A.
C31_ItemsAreReservedUnits ==
    [][\A p \in DOMAIN sess :
          (/\ Free(p) /\ sess'[p].op \in {"expire_order", "cancel_order"}
           /\ sess'[p].order_id \in OrderIds
           /\ orders[sess'[p].order_id].status = "pending")
          => \A u \in StockIds : product_stocks'[u].order_id # sess'[p].order_id]_vars

\* C32: the balance of the user is never negative and is the initial balance
\* plus the amounts added minus the amounts of the deductions that succeeded,
\* and a deduction of more than the balance fails and changes nothing.
C32_BalanceIsSumOfUpdates ==
    \A u \in DOMAIN users_table :
        /\ users_table[u].account_balance >= 0
        /\ users_table[u].account_balance =
              balance_log[u].base + balance_log[u].added - balance_log[u].deducted
        /\ \A p \in DOMAIN sess :
              (sess[p].op = "deduct_balance" /\ sess[p].balance < sess[p].amount)
              => sess[p].pc # "flush"

C34_SessionRoundTrip ==
    (handler.wrote /\ HasSession) =>
        \A k \in DOMAIN handler.saved \ {"last_activity"} :
            k \in DOMAIN get_session /\ get_session[k] = handler.saved[k]

\* in every closed interval of RateWindow seconds fewer than RateLimit calls
\* were made
Spaced ==
    \A t \in 0..RateClock :
        Cardinality({i \in DOMAIN flow.history :
                        t <= flow.history[i] /\ flow.history[i] <= t + RateWindow}) < RateLimit

\* C36: at most RateLimit calls are answered True while one counter lives,
\* and a call made while the counter is at the limit is answered False and
\* leaves the counter as it is.
C36_AtMostLimitPerCounter ==
    [][/\ flow'.allowed <= RateLimit
       /\ (AtLimit(store["rate"], RateLimit) /\ flow'.history # flow.history)
            => (flow'.rejected /\ store' = store)]_vars

\* C37: a user with fewer than RateLimit calls in every interval of RateWindow
\* seconds has not been answered False.
C37_SpacedCallsNeverRejected ==
    Spaced => ~flow.rejected

\* C38: get_expired_payments returns exactly the orders that were scheduled,
\* were not removed since, and whose expiry time has come; scheduling or
\* removing an order leaves the other orders of the queue.
C38_QueueReturnsDueOrders ==
    queue_expired_payments =
        {order_id \in DOMAIN flow.scheduled : flow.scheduled[order_id] <= clock}

\* C39: the flush of delete_stock, or of delete_all_stock with only_unsold,
\* deletes no unit that an order holds (is_sold, reserved for an order), and
\* afterwards every order item points at a unit that is in the table.
C39_DeletionSparesHeldUnits ==
    [][\A p \in DOMAIN sess :
          (/\ Loaded(p, "delete_stock") \/ (Loaded(p, "delete_all_stock") /\ sess[p].only_unsold)
           /\ sess'[p].pc # "flush")
          => /\ \A u \in StockIds :
                   (product_stocks[u] # Deleted /\ product_stocks'[u] = Deleted)
                   => (~product_stocks[u].is_sold /\ product_stocks[u].order_id = NULL)
             /\ \A i \in order_items : product_stocks'[i.stock_id] # Deleted]_vars

\* the status codes of the webhook's responses, and 0 before the first one
StatusCodes == {0, 200, 400, 401, 500}

TypeOK ==
    /\ \A o \in OrderIds : orders[o].status \in StatusInputs
    /\ \A u \in StockIds : product_stocks[u].order_id \in {NULL} \cup OrderIds
    /\ http \in StatusCodes

====
